---- MODULE Spec2Model ----
(***************************************************************************)
(* State-machine model of the E2E test harness of nestjs-e2e-showcase:     *)
(* the builder E2ETestSetup (test/utils/test-setup.ts), the factory        *)
(* registry TestFactories (test/factories/index.ts), the two entity        *)
(* factories, the data generator, and the PostgreSQL tables and sequences  *)
(* they act on (drizzle/0000_*.sql).                                       *)
(*                                                                         *)
(* Every handler is one action.  A handler's awaits are not interleaved:   *)
(* the test files await each call before issuing the next one.             *)
(* The order of the statements inside one call is kept in last.trace.      *)
(***************************************************************************)
EXTENDS Integers, Sequences, FiniteSets, TLC

VARIABLES
    \* ---- E2ETestSetup (builder and context) ----
    imports,            \* private imports: sequence of module names
    controllers,        \* private controllers: sequence of controller names
    providers,          \* private providers: sequence of provider names
    providerOverrides,  \* private providerOverrides: sequence of override records
    useCustomModule,    \* private useCustomModule
    app,                \* public app: 0 = undefined, n = the n-th instance started
    db,                 \* public db: a handle record
    factories,          \* public factories: a registry record
    \* ---- the framework's application instances ----
    instances,          \* sequence: instances[n] is the n-th application started
    built,              \* the testing module this.app was compiled from
    \* ---- PostgreSQL ----
    schools,            \* rows of table schools
    teachers,           \* rows of table teachers
    schools_id_seq,     \* last value issued by schools_id_seq (0 = restarted)
    teachers_id_seq,    \* last value issued by teachers_id_seq
    \* ---- TestDataGenerator and the clock ----
    counter,            \* TestDataGenerator.counter
    pending,            \* create() calls in flight: payloads built, insert not yet awaited
    now,                \* Date.now()
    \* ---- observation of the calls ----
    last,               \* the last call: what it was, whether it raised, its result, its statements
    afterCleanup        \* per entity type: how the last registry cleanup went, "no" once an insert followed it

vars == <<imports, controllers, providers, providerOverrides, useCustomModule, app, db, factories,
          instances, built, schools, teachers, schools_id_seq, teachers_id_seq,
          counter, pending, now, last, afterCleanup>>

builderVars == <<imports, controllers, providers, providerOverrides, useCustomModule>>
contextVars == <<app, db, factories>>
nestVars == <<instances, built>>
pgVars == <<schools, teachers, schools_id_seq, teachers_id_seq>>
genVars == <<counter, now>>
callVars == <<pending>>

-----------------------------------------------------------------------------
(* Bounds of the model                                                     *)

MaxId == 2          \* a sequence issues identifiers 1..MaxId
MaxClock == 1       \* Date.now() takes the values 0..MaxClock
MaxCounter == 2     \* TestDataGenerator.counter is followed up to this value
MaxApps == 2        \* setupApp() calls followed
MaxImports == 2     \* length of the imports, controllers and providers lists followed
MaxOverrides == 2   \* length of the providerOverrides list followed
MaxCloses == 2      \* app.close() calls followed per instance
MaxBatch == 2       \* createMany(count) is followed for count in 1..MaxBatch
MaxRand == 2        \* Math.random() takes the values 1..MaxRand
MaxPending == 2     \* create() calls followed while in flight together
MaxRange == 4       \* randomInt(min, max) is followed for min, max in -MaxRange..MaxRange

-----------------------------------------------------------------------------
(* Values                                                                  *)

FactoryTypes == {"school", "teacher"}

\* SQL NULL / JS null: the empty tuple for a text value (a text is the tuple of
\* its parts), 0 for an identifier (identifiers start at 1)
NULL == <<>>
NullId == 0

\* a db handle: undefined, the connection an application created, or what an
\* override installed for DATABASE_CONNECTION
NoDb == [kind |-> "undefined", app |-> 0]
Conn(n) == [kind |-> "conn", app |-> n]
IsPresent(h) == h.kind \notin {"undefined", "null"}

NoModule == [imports |-> <<>>, controllers |-> <<>>, providers |-> <<>>, overrides |-> <<>>]

NoFactories == [present |-> FALSE, db |-> NoDb, map |-> {}, built |-> 0]

\* what is recorded of a call: op and type name it, raised says whether it threw
\* to its caller, row and ret are what it returned, trace its statements in
\* order; hadFactories and after are the registry's presence and afterCleanup[type]
\* when the call started, fresh says that no row stored when the call started
\* carried the identifier returned, overridden that the caller passed overrides;
\* given is the overrides object of a create or createMany, data the payloads
\* it handed to the insert, rows the rows it returned, before the rows of the
\* table when it started; status and body are the answer to a GET /schools
NoRow == [id |-> 0]
NoInstance == [type |-> "none", db |-> NoDb, serial |-> 0]
NoCall == [op |-> "none", type |-> "none", raised |-> FALSE, row |-> NoRow,
           ret |-> NoInstance, hadFactories |-> FALSE, after |-> "no",
           fresh |-> FALSE, overridden |-> FALSE, trace |-> <<>>,
           given |-> <<>>, data |-> <<>>, rows |-> <<>>, before |-> {},
           status |-> 0, body |-> {}, value |-> 0, calls |-> <<>>]

-----------------------------------------------------------------------------
(* PostgreSQL: tables schools and teachers, their serial sequences, the    *)
(* unique constraint teachers_email_unique and the foreign key             *)
(* teachers.school_id -> schools.id (ON DELETE no action).                 *)

PG == [schools |-> schools, teachers |-> teachers,
       schools_id_seq |-> schools_id_seq, teachers_id_seq |-> teachers_id_seq]

\* the outcome of one statement: it ran, or it threw and changed nothing
Ran(d) == [ok |-> TRUE, pg |-> d]
Threw(d) == [ok |-> FALSE, pg |-> d]

\* a statement sent through handle h runs only if h is a live connection and
\* the server accepts it (envOk)
Reaches(h, envOk) == h.kind = "conn" /\ envOk

\* TRUNCATE TABLE teachers, schools RESTART IDENTITY CASCADE
TruncateAll(d, h, envOk) ==
    IF Reaches(h, envOk)
    THEN Ran([schools |-> {}, teachers |-> {}, schools_id_seq |-> 0, teachers_id_seq |-> 0])
    ELSE Threw(d)

\* mutant: the truncate of schools does not reach teachers
TruncateSchoolsCascade_SchoolsOnly(d, h, envOk) ==
    IF Reaches(h, envOk)
    THEN Ran([d EXCEPT !.schools = {}, !.schools_id_seq = 0])
    ELSE Threw(d)

\* TRUNCATE TABLE schools RESTART IDENTITY CASCADE: teachers references schools,
\* so CASCADE truncates teachers too and RESTART IDENTITY restarts both sequences
TruncateSchoolsCascade(d, h, envOk) ==
    IF Reaches(h, envOk)
    THEN Ran([schools |-> {}, teachers |-> {}, schools_id_seq |-> 0, teachers_id_seq |-> 0])
    ELSE Threw(d)

\* TRUNCATE TABLE teachers RESTART IDENTITY
TruncateTeachers(d, h, envOk) ==
    IF Reaches(h, envOk)
    THEN Ran([d EXCEPT !.teachers = {}, !.teachers_id_seq = 0])
    ELSE Threw(d)

\* DELETE FROM schools: refused while a teacher row references a school
DeleteSchools(d, h, envOk) ==
    IF Reaches(h, envOk) /\ \A t \in d.teachers : t.schoolId = NullId
    THEN Ran([d EXCEPT !.schools = {}])
    ELSE Threw(d)

\* DELETE FROM teachers
DeleteTeachers(d, h, envOk) ==
    IF Reaches(h, envOk) THEN Ran([d EXCEPT !.teachers = {}]) ELSE Threw(d)

\* ALTER SEQUENCE schools_id_seq RESTART WITH 1
RestartSchoolsSeq(d, h, envOk) ==
    IF Reaches(h, envOk) THEN Ran([d EXCEPT !.schools_id_seq = 0]) ELSE Threw(d)

\* ALTER SEQUENCE teachers_id_seq RESTART WITH 1
RestartTeachersSeq(d, h, envOk) ==
    IF Reaches(h, envOk) THEN Ran([d EXCEPT !.teachers_id_seq = 0]) ELSE Threw(d)

\* INSERT INTO schools ... RETURNING *: the serial default draws nextval (kept
\* even when the row is refused); name is NOT NULL
InsertSchool(d, h, data) ==
    LET id == d.schools_id_seq + 1
        row == [id |-> id, name |-> data.name, address |-> data.address,
                phone |-> data.phone, email |-> data.email]
        drawn == [d EXCEPT !.schools_id_seq = id]
    IN  IF h.kind # "conn" THEN [ok |-> FALSE, pg |-> d, row |-> row]
        ELSE IF data.name = NULL THEN [ok |-> FALSE, pg |-> drawn, row |-> row]
        ELSE [ok |-> TRUE, pg |-> [drawn EXCEPT !.schools = @ \cup {row}], row |-> row]

\* INSERT INTO teachers ... RETURNING *: first_name, last_name, email NOT NULL,
\* email unique, school_id null or the id of a stored school
InsertTeacher(d, h, data) ==
    LET id == d.teachers_id_seq + 1
        row == [id |-> id, firstName |-> data.firstName, lastName |-> data.lastName,
                email |-> data.email, phone |-> data.phone, subject |-> data.subject,
                schoolId |-> data.schoolId]
        drawn == [d EXCEPT !.teachers_id_seq = id]
        accepted == /\ data.firstName # NULL /\ data.lastName # NULL /\ data.email # NULL
                    /\ \A t \in d.teachers : t.email # data.email
                    /\ data.schoolId # NullId => \E s \in d.schools : s.id = data.schoolId
    IN  IF h.kind # "conn" THEN [ok |-> FALSE, pg |-> d, row |-> row]
        ELSE IF ~accepted THEN [ok |-> FALSE, pg |-> drawn, row |-> row]
        ELSE [ok |-> TRUE, pg |-> [drawn EXCEPT !.teachers = @ \cup {row}], row |-> row]

\* the result a statement resolves to through the postgres-js driver: the
\* rows a RETURNING clause (or a SELECT) produced, which are the elements of
\* the array, and the count of rows the statement affected
RowList(rows, count) == [rows |-> rows, count |-> count]

\* UPDATE schools SET ... WHERE id = $1 RETURNING *: name stays NOT NULL
UpdateSchoolRow(d, h, id, patch) ==
    LET hit == {s \in d.schools : s.id = id}
        upd(s) == [k \in DOMAIN s |-> IF k \in DOMAIN patch THEN patch[k] ELSE s[k]]
    IN  IF h.kind # "conn" THEN [ok |-> FALSE, pg |-> d, result |-> RowList({}, 0)]
        ELSE IF hit # {} /\ "name" \in DOMAIN patch /\ patch["name"] = NULL
        THEN [ok |-> FALSE, pg |-> d, result |-> RowList({}, 0)]
        ELSE [ok |-> TRUE,
              pg |-> [d EXCEPT !.schools = (@ \ hit) \cup {upd(s) : s \in hit}],
              result |-> RowList({upd(s) : s \in hit}, Cardinality(hit))]

\* UPDATE teachers SET ... WHERE id = $1 RETURNING *: email stays unique,
\* school_id stays null or the id of a stored school
UpdateTeacherRow(d, h, id, patch) ==
    LET hit == {t \in d.teachers : t.id = id}
        upd(t) == [k \in DOMAIN t |-> IF k \in DOMAIN patch THEN patch[k] ELSE t[k]]
        accepted == \A t \in hit :
                        /\ upd(t).email # NULL
                        /\ \A o \in d.teachers \ hit : o.email # upd(t).email
                        /\ upd(t).schoolId # NullId =>
                               \E x \in d.schools : x.id = upd(t).schoolId
    IN  IF h.kind # "conn" \/ ~accepted
        THEN [ok |-> FALSE, pg |-> d, result |-> RowList({}, 0)]
        ELSE [ok |-> TRUE,
              pg |-> [d EXCEPT !.teachers = (@ \ hit) \cup {upd(t) : t \in hit}],
              result |-> RowList({upd(t) : t \in hit}, Cardinality(hit))]

\* mutant: a school is deleted although a teacher references it
DeleteSchoolRow_Unchecked(d, h, id) ==
    LET hit == {s \in d.schools : s.id = id}
    IN  IF h.kind # "conn" THEN [ok |-> FALSE, pg |-> d, result |-> RowList({}, 0)]
        ELSE [ok |-> TRUE, pg |-> [d EXCEPT !.schools = @ \ hit],
              result |-> RowList({}, Cardinality(hit))]

\* DELETE FROM schools WHERE id = $1 (no RETURNING): refused while a teacher
\* row references the school
DeleteSchoolRow(d, h, id) ==
    LET hit == {s \in d.schools : s.id = id}
    IN  IF h.kind # "conn" \/ \E t \in d.teachers : \E s \in hit : t.schoolId = s.id
        THEN [ok |-> FALSE, pg |-> d, result |-> RowList({}, 0)]
        ELSE [ok |-> TRUE, pg |-> [d EXCEPT !.schools = @ \ hit],
              result |-> RowList({}, Cardinality(hit))]

\* DELETE FROM teachers WHERE id = $1 (no RETURNING)
DeleteTeacherRow(d, h, id) ==
    LET hit == {t \in d.teachers : t.id = id}
    IN  IF h.kind # "conn" THEN [ok |-> FALSE, pg |-> d, result |-> RowList({}, 0)]
        ELSE [ok |-> TRUE, pg |-> [d EXCEPT !.teachers = @ \ hit],
              result |-> RowList({}, Cardinality(hit))]

-----------------------------------------------------------------------------
(* The statements of a call, in the order they were issued                 *)

Stmt(name, ok) == <<[stmt |-> name, ok |-> ok]>>

\* which statements of a cleanup the server accepts.  A statement that is not
\* issued has no outcome: its flag is kept TRUE (after a successful bulk
\* truncate nothing else is issued; after a successful per-table truncate no
\* DELETE and no ALTER SEQUENCE; after a failed DELETE no ALTER SEQUENCE)
Failures ==
    {f \in [bulk : BOOLEAN, tTrunc : BOOLEAN, tDel : BOOLEAN, tSeq : BOOLEAN,
            sTrunc : BOOLEAN, sDel : BOOLEAN, sSeq : BOOLEAN] :
        /\ f.bulk => f.tTrunc /\ f.sTrunc
        /\ f.tTrunc => f.tDel
        /\ ~f.tDel => f.tSeq
        /\ f.tTrunc => f.tSeq
        /\ f.sTrunc => f.sDel
        /\ ~f.sDel => f.sSeq
        /\ f.sTrunc => f.sSeq}

-----------------------------------------------------------------------------
(* SchoolFactory.cleanup / TeacherFactory.cleanup                          *)

\* mutant: SchoolFactory.cleanup runs its fallback after a successful truncate too
SchoolFactoryCleanup_AlwaysFallback(d, h, f) ==
    LET r1 == TruncateSchoolsCascade(d, h, f.sTrunc)
        d1 == IF r1.ok THEN r1.pg ELSE d
        r2 == DeleteSchools(d1, h, f.sDel)
        r3 == RestartSchoolsSeq(r2.pg, h, f.sSeq)
        t1 == Stmt("call school.cleanup", TRUE) \o Stmt("TRUNCATE schools CASCADE", r1.ok)
        end == Stmt("return school.cleanup", TRUE)
    IN  IF ~r2.ok
        THEN [pg |-> d1, raised |-> FALSE,
              trace |-> t1 \o Stmt("DELETE schools", FALSE) \o end]
        ELSE [pg |-> r3.pg, raised |-> FALSE,
              trace |-> t1 \o Stmt("DELETE schools", TRUE)
                           \o Stmt("ALTER schools_id_seq", r3.ok) \o end]

\* try { TRUNCATE schools CASCADE } catch { try { DELETE; ALTER SEQUENCE } catch {} }
SchoolFactoryCleanup(d, h, f) ==
    LET r1 == TruncateSchoolsCascade(d, h, f.sTrunc)
        r2 == DeleteSchools(d, h, f.sDel)
        r3 == RestartSchoolsSeq(r2.pg, h, f.sSeq)
        t1 == Stmt("call school.cleanup", TRUE) \o Stmt("TRUNCATE schools CASCADE", r1.ok)
        end == Stmt("return school.cleanup", TRUE)
    IN  IF r1.ok THEN [pg |-> r1.pg, raised |-> FALSE, trace |-> t1 \o end]
        ELSE IF ~r2.ok
        THEN [pg |-> d, raised |-> FALSE,
              trace |-> t1 \o Stmt("DELETE schools", FALSE) \o end]
        ELSE [pg |-> r3.pg, raised |-> FALSE,
              trace |-> t1 \o Stmt("DELETE schools", TRUE)
                           \o Stmt("ALTER schools_id_seq", r3.ok) \o end]

\* mutant: the fallback of TeacherFactory.cleanup is not wrapped in its own try
TeacherFactoryCleanup_NoInnerCatch(d, h, f) ==
    LET r1 == TruncateTeachers(d, h, f.tTrunc)
        r2 == DeleteTeachers(d, h, f.tDel)
        r3 == RestartTeachersSeq(r2.pg, h, f.tSeq)
        t1 == Stmt("call teacher.cleanup", TRUE) \o Stmt("TRUNCATE teachers", r1.ok)
        end == Stmt("return teacher.cleanup", TRUE)
    IN  IF r1.ok THEN [pg |-> r1.pg, raised |-> FALSE, trace |-> t1 \o end]
        ELSE IF ~r2.ok
        THEN [pg |-> d, raised |-> TRUE, trace |-> t1 \o Stmt("DELETE teachers", FALSE)]
        ELSE [pg |-> r3.pg, raised |-> ~r3.ok,
              trace |-> t1 \o Stmt("DELETE teachers", TRUE)
                           \o Stmt("ALTER teachers_id_seq", r3.ok)]

\* try { TRUNCATE teachers } catch { try { DELETE; ALTER SEQUENCE } catch {} }
TeacherFactoryCleanup(d, h, f) ==
    LET r1 == TruncateTeachers(d, h, f.tTrunc)
        r2 == DeleteTeachers(d, h, f.tDel)
        r3 == RestartTeachersSeq(r2.pg, h, f.tSeq)
        t1 == Stmt("call teacher.cleanup", TRUE) \o Stmt("TRUNCATE teachers", r1.ok)
        end == Stmt("return teacher.cleanup", TRUE)
    IN  IF r1.ok THEN [pg |-> r1.pg, raised |-> FALSE, trace |-> t1 \o end]
        ELSE IF ~r2.ok
        THEN [pg |-> d, raised |-> FALSE,
              trace |-> t1 \o Stmt("DELETE teachers", FALSE) \o end]
        ELSE [pg |-> r3.pg, raised |-> FALSE,
              trace |-> t1 \o Stmt("DELETE teachers", TRUE)
                           \o Stmt("ALTER teachers_id_seq", r3.ok) \o end]

FactoryCleanup(type, d, h, f) ==
    IF type = "school" THEN SchoolFactoryCleanup(d, h, f) ELSE TeacherFactoryCleanup(d, h, f)

-----------------------------------------------------------------------------
(* TestFactories                                                           *)

\* this.factories.has(type) / this.factories.get(type)
Has(reg, type) == \E i \in reg.map : i.type = type
Cached(reg, type) == CHOOSE i \in reg.map : i.type = type

\* mutant: get constructs a factory on every request
TestFactoriesGet_AlwaysNew(reg, type) ==
    [reg EXCEPT !.map = @ \cup {[type |-> type, db |-> reg.db, serial |-> reg.built + 1]},
                !.built = @ + 1]

\* get(factoryType): construct on the first request, then the cached instance
TestFactoriesGet(reg, type) ==
    IF Has(reg, type) THEN reg
    ELSE [reg EXCEPT !.map = @ \cup {[type |-> type, db |-> reg.db, serial |-> reg.built + 1]},
                     !.built = @ + 1]

\* the fallback loop over cleanupOrder = ['teacher', 'school']: a factory that
\* is not in the map is skipped; a raise would end the loop
CleanupOrder == <<"teacher", "school">>

RECURSIVE FallbackLoop(_, _, _, _, _)
FallbackLoop(reg, d, f, k, trace) ==
    IF k > Len(CleanupOrder) THEN [pg |-> d, raised |-> FALSE, trace |-> trace]
    ELSE IF ~Has(reg, CleanupOrder[k]) THEN FallbackLoop(reg, d, f, k + 1, trace)
    ELSE LET r == FactoryCleanup(CleanupOrder[k], d, Cached(reg, CleanupOrder[k]).db, f)
         IN  IF r.raised THEN [pg |-> r.pg, raised |-> TRUE, trace |-> trace \o r.trace]
             ELSE FallbackLoop(reg, r.pg, f, k + 1, trace \o r.trace)

\* cleanup(): try { TRUNCATE teachers, schools } catch { fallback loop }
TestFactoriesCleanup(reg, d, f) ==
    LET r1 == TruncateAll(d, reg.db, f.bulk)
        t1 == Stmt("TRUNCATE teachers, schools", r1.ok)
    IN  IF r1.ok THEN [pg |-> r1.pg, raised |-> FALSE, trace |-> t1]
        ELSE FallbackLoop(reg, d, f, 1, t1)

-----------------------------------------------------------------------------
(* TestDataGenerator.  Strings are kept as tuples of their parts.          *)

\* mutant: getUniqueId returns the counter without incrementing it
GetUniqueId_NoIncrement(c) == c

\* getUniqueId(): ++this.counter
GetUniqueId(c) == c + 1

\* getTimestampId(): `${Date.now()}${Math.random().toString(36).substr(2, 5)}`
GetTimestampId(clock, rnd) == <<clock, rnd>>

\* generateEmail(prefix): `${prefix || 'test'}${getTimestampId()}@example.com`
GenerateEmail(prefix, clock, rnd) == <<prefix>> \o GetTimestampId(clock, rnd) \o <<"@example.com">>

\* generateName(prefix): `${prefix} ${id}` with id the value getUniqueId() returned
GenerateName(prefix, id) == <<prefix, id>>

\* Math.random(): a number in [0, 1), kept as the fraction (r - 1) / MaxRand
\* Math.floor(Math.random() * x) for an integer x of either sign
FloorOfRandomTimes(r, x) == ((r - 1) * x) \div MaxRand

\* randomInt(min, max): Math.floor(Math.random() * (max - min + 1)) + min;
\* there is no throw statement in it
RandomInt(min, max, r) ==
    [raised |-> FALSE, value |-> FloorOfRandomTimes(r, max - min + 1) + min]

\* generatePhone() and generateAddress(): the digits drawn are not followed
GeneratePhone == <<"+1", "area", "first", "second">>
GenerateAddress == <<"streetNumber", " ", "street">>

-----------------------------------------------------------------------------
(* SchoolFactory / TeacherFactory: getDefaultData and create               *)

\* mutant: the generated default wins over the override
Merge_DefaultsWin(defaults, overrides) ==
    [k \in DOMAIN defaults \cup DOMAIN overrides |->
        IF k \in DOMAIN defaults THEN defaults[k] ELSE overrides[k]]

\* { ...defaults, ...overrides }: the override wins per attribute
Merge(defaults, overrides) ==
    [k \in DOMAIN defaults \cup DOMAIN overrides |->
        IF k \in DOMAIN overrides THEN overrides[k] ELSE defaults[k]]

NoOverrides == [k \in {} |-> NULL]

\* SchoolFactory.getDefaultData(): c is the counter before the call
SchoolDefaultData(c, clock, rnd) ==
    [name |-> GenerateName("Test School", GetUniqueId(c)),
     address |-> GenerateAddress,
     phone |-> GeneratePhone,
     email |-> GenerateEmail("school", clock, rnd)]

\* TeacherFactory.getDefaultData(schoolId): schoolId || null
TeacherDefaultData(schoolId, clock) ==
    [firstName |-> <<"Teacher", clock>>,
     lastName |-> <<"Doe">>,
     email |-> <<"teacher", clock, "@test.com">>,
     phone |-> <<"+1234567890">>,
     subject |-> <<"Mathematics">>,
     schoolId |-> IF schoolId = NullId THEN NullId ELSE schoolId]

\* the awaited part of SchoolFactory.create: one transaction around one
\* insert; a refused insert rolls back and the error reaches the caller
SchoolFactoryInsert(d, h, data) ==
    LET r == InsertSchool(d, h, data)
    IN  [pg |-> r.pg, raised |-> ~r.ok, row |-> IF r.ok THEN r.row ELSE NoRow,
         data |-> <<data>>,
         trace |-> Stmt("BEGIN", TRUE) \o Stmt("INSERT schools", r.ok)
                   \o Stmt(IF r.ok THEN "COMMIT" ELSE "ROLLBACK", TRUE)]

\* SchoolFactory.create(overrides): the payload is the merged defaults
SchoolFactoryCreate(d, h, c, clock, rnd, overrides) ==
    SchoolFactoryInsert(d, h, Merge(SchoolDefaultData(c, clock, rnd), overrides))

\* const { school, ...teacherData } = overrides || {}: school?.id is undefined
\* (0 here) when no school is given
SchoolOf(overrides) == IF "school" \in DOMAIN overrides THEN overrides["school"] ELSE NoRow
TeacherData(overrides) == [k \in DOMAIN overrides \ {"school"} |-> overrides[k]]

\* mutant: the school's id is only the default, a raw schoolId override wins
TeacherCreateData_RawWins(clock, overrides) ==
    Merge(TeacherDefaultData(SchoolOf(overrides).id, clock), TeacherData(overrides))

\* the payload of TeacherFactory.create: defaults, then teacherData, then
\* if (school?.id) data.schoolId = school.id
TeacherCreateData(clock, overrides) ==
    LET school == SchoolOf(overrides)
        data == Merge(TeacherDefaultData(school.id, clock), TeacherData(overrides))
    IN  IF school.id # NullId THEN [data EXCEPT !.schoolId = school.id] ELSE data

\* TeacherFactory.create(overrides): one transaction around one insert
TeacherFactoryCreate(d, h, clock, overrides) ==
    LET data == TeacherCreateData(clock, overrides)
        r == InsertTeacher(d, h, data)
    IN  [pg |-> r.pg, raised |-> ~r.ok, row |-> IF r.ok THEN r.row ELSE NoRow,
         data |-> <<data>>,
         trace |-> Stmt("BEGIN", TRUE) \o Stmt("INSERT teachers", r.ok)
                   \o Stmt(IF r.ok THEN "COMMIT" ELSE "ROLLBACK", TRUE)]

-----------------------------------------------------------------------------
(* SchoolFactory.createMany / TeacherFactory.createMany                    *)

\* Array.from({ length: count }, () => ({ ...getDefaultData(), ...overrides })):
\* the k-th getDefaultData() draws the k-th unique id and random part
SchoolCreateManyData(c, clock, rnds, overrides) ==
    [k \in 1..Len(rnds) |-> Merge(SchoolDefaultData(c + k - 1, clock, rnds[k]), overrides)]

\* the payloads of TeacherFactory.createMany: defaults, then firstName and
\* email suffixed with the index, then teacherData, then the school's id
TeacherCreateManyData(clock, count, overrides) ==
    [k \in 1..count |->
        LET school == SchoolOf(overrides)
            indexed == [firstName |-> <<"Teacher", clock, "_", k - 1>>,
                        email |-> <<"teacher", clock, "_", k - 1, "@test.com">>]
            data == Merge(Merge(TeacherDefaultData(school.id, clock), indexed),
                          TeacherData(overrides))
        IN  IF school.id # NullId THEN [data EXCEPT !.schoolId = school.id] ELSE data]

\* mutant: the rows accepted before a refused one stay in the table
RECURSIVE InsertMany_Partial(_, _, _, _, _, _, _)
InsertMany_Partial(type, d0, d, h, datas, k, rows) ==
    IF k > Len(datas) THEN [ok |-> TRUE, pg |-> d, rows |-> rows]
    ELSE LET r == IF type = "school" THEN InsertSchool(d, h, datas[k])
                  ELSE InsertTeacher(d, h, datas[k])
         IN  IF ~r.ok THEN [ok |-> FALSE, pg |-> r.pg, rows |-> <<>>]
             ELSE InsertMany_Partial(type, d0, r.pg, h, datas, k + 1, Append(rows, r.row))

\* insert(table).values([...]).returning(): one statement; the rows are taken
\* in order, each drawing its identifier; a refused row fails the statement,
\* which leaves the table as it was (d0) and the identifiers drawn consumed
RECURSIVE InsertMany(_, _, _, _, _, _, _)
InsertMany(type, d0, d, h, datas, k, rows) ==
    IF k > Len(datas) THEN [ok |-> TRUE, pg |-> d, rows |-> rows]
    ELSE LET r == IF type = "school" THEN InsertSchool(d, h, datas[k])
                  ELSE InsertTeacher(d, h, datas[k])
         IN  IF ~r.ok
             THEN [ok |-> FALSE,
                   pg |-> [d0 EXCEPT !.schools_id_seq = r.pg.schools_id_seq,
                                     !.teachers_id_seq = r.pg.teachers_id_seq],
                   rows |-> <<>>]
             ELSE InsertMany(type, d0, r.pg, h, datas, k + 1, Append(rows, r.row))

\* the transaction around the one insert of a createMany
CreateManyTrace(type, ok) ==
    Stmt("BEGIN", TRUE) \o Stmt(IF type = "school" THEN "INSERT schools" ELSE "INSERT teachers", ok)
        \o Stmt(IF ok THEN "COMMIT" ELSE "ROLLBACK", TRUE)

\* SchoolFactory.createMany(count, overrides), count = Len(rnds)
SchoolFactoryCreateMany(d, h, c, clock, rnds, overrides) ==
    LET datas == SchoolCreateManyData(c, clock, rnds, overrides)
        r == InsertMany("school", d, d, h, datas, 1, <<>>)
    IN  [pg |-> r.pg, raised |-> ~r.ok, rows |-> r.rows, data |-> datas,
         trace |-> CreateManyTrace("school", r.ok)]

\* TeacherFactory.createMany(count, overrides)
TeacherFactoryCreateMany(d, h, clock, count, overrides) ==
    LET datas == TeacherCreateManyData(clock, count, overrides)
        r == InsertMany("teacher", d, d, h, datas, 1, <<>>)
    IN  [pg |-> r.pg, raised |-> ~r.ok, rows |-> r.rows, data |-> datas,
         trace |-> CreateManyTrace("teacher", r.ok)]

-----------------------------------------------------------------------------
(* The composition root (Nest's testing module), as far as the harness     *)
(* depends on it                                                           *)

Modules == {"ConfigModule", "DatabaseModule"}

\* AppModule imports ConfigModule.forRoot({isGlobal: true}), DatabaseModule, ...
Graph(imps) ==
    {imps[i] : i \in 1..Len(imps)}
        \cup (IF \E i \in 1..Len(imps) : imps[i] = "AppModule"
              THEN {"ConfigModule", "DatabaseModule"} ELSE {})

\* compile(): DatabaseModule provides AppConfigService, which injects the
\* ConfigService that only ConfigModule provides
CompileOk(imps) == "DatabaseModule" \in Graph(imps) => "ConfigModule" \in Graph(imps)

\* the handle an override value stands for
OverrideValues == {"mock", "null", "undefined"}
Handle(v) == [kind |-> v, app |-> 0]

\* the classes and factory functions a test registers as overrides, and what
\* a factory function returns when it is called with no arguments
OverrideClasses == {"MockClass"}
OverrideFactories == {"mockFactory"}
\* what a factory function returns: the functions the tests register build
\* their value from the arguments they are called with
CallFactory(fn, args) == IF args = <<>> THEN "made" ELSE "madeWithDeps"

\* the dependency lists a test passes as inject
Deps == {<<>>, <<"ConfigService">>}

\* a ProviderOverride entry: the members an override call does not set are
\* undefined
Entry(token, useValue, useClass, useFactory, inject) ==
    [token |-> token, useValue |-> useValue, useClass |-> useClass,
     useFactory |-> useFactory, inject |-> inject]

\* mutant: the factory function is called with the dependencies in inject
FactoryArgs_Inject(e) == IF e.inject = "undefined" THEN <<>> ELSE e.inject

\* override.useFactory(): the arguments of the call, none whatever inject lists
FactoryArgs(e) == <<>>

\* the entry takes the useFactory branch of the override loop
TakesFactoryBranch(e) ==
    e.useValue = "undefined" /\ e.useClass = "undefined" /\ e.useFactory # "undefined"

\* the calls of factory functions one pass of the override loop makes, in order
FactoryCalls(ovs) ==
    LET es == SelectSeq(ovs, TakesFactoryBranch)
    IN  [k \in 1..Len(es) |->
            [fn |-> es[k].useFactory, token |-> es[k].token, args |-> FactoryArgs(es[k])]]

\* what one pass of the override loop installs for an entry: useValue when it
\* is not undefined, else an instance of useClass, else the value returned
\* by useFactory(); "undefined" when no branch is taken
Substitute(e) ==
    IF e.useValue # "undefined" THEN e.useValue
    ELSE IF e.useClass # "undefined" THEN e.useClass
    ELSE IF e.useFactory # "undefined" THEN CallFactory(e.useFactory, FactoryArgs(e))
    ELSE "undefined"

\* the override loop of setupApp(): an entry whose useValue is undefined (and
\* that has no useClass and no useFactory) is not applied; a later entry for
\* the same token replaces an earlier one
RECURSIVE ApplyOverrides(_, _, _)
ApplyOverrides(ovs, k, applied) ==
    IF k > Len(ovs) THEN applied
    ELSE IF Substitute(ovs[k]) # "undefined"
         THEN ApplyOverrides(ovs, k + 1,
                [t \in DOMAIN applied \cup {ovs[k].token} |->
                    IF t = ovs[k].token THEN Substitute(ovs[k]) ELSE applied[t]])
         ELSE ApplyOverrides(ovs, k + 1, applied)

\* app.get('DATABASE_CONNECTION'): throws when no module of the graph provides
\* the token (an override only replaces a provider that exists)
Provides(inst) == "DatabaseModule" \in Graph(inst.imports)
Resolve(inst, n) ==
    IF "DATABASE_CONNECTION" \in DOMAIN inst.overrides
    THEN Handle(inst.overrides["DATABASE_CONNECTION"])
    ELSE Conn(n)

-----------------------------------------------------------------------------
(* Initial state: a new E2ETestSetup, an empty database, a fresh process   *)

Init ==
    /\ imports = <<"AppModule">>
    /\ controllers = <<>>
    /\ providers = <<>>
    /\ providerOverrides = <<>>
    /\ useCustomModule = FALSE
    /\ app = 0
    /\ db = NoDb
    /\ factories = NoFactories
    /\ instances = <<>>
    /\ built = NoModule
    /\ schools = {}
    /\ teachers = {}
    /\ schools_id_seq = 0
    /\ teachers_id_seq = 0
    /\ counter = 0
    /\ pending = <<>>
    /\ now = 0
    /\ last = NoCall
    /\ afterCleanup = [t \in FactoryTypes |-> "no"]

Call(op, type) ==
    [NoCall EXCEPT !.op = op, !.type = type, !.hadFactories = factories.present]

SetPG(d) ==
    /\ schools' = d.schools
    /\ teachers' = d.teachers
    /\ schools_id_seq' = d.schools_id_seq
    /\ teachers_id_seq' = d.teachers_id_seq

-----------------------------------------------------------------------------
(* E2ETestSetup: configuration calls                                       *)

\* withAppModule()
WithAppModule ==
    /\ imports' = <<"AppModule">>
    /\ useCustomModule' = FALSE
    /\ last' = Call("configure", "none")
    /\ UNCHANGED <<callVars, controllers, providers, providerOverrides, contextVars, nestVars, pgVars, genVars,
                   afterCleanup>>

\* withCustomModule()
WithCustomModule ==
    /\ imports' = <<>>
    /\ useCustomModule' = TRUE
    /\ last' = Call("configure", "none")
    /\ UNCHANGED <<callVars, controllers, providers, providerOverrides, contextVars, nestVars, pgVars, genVars,
                   afterCleanup>>

\* mutant: the additive calls push in either mode
Push_Always(list, x, custom) == Append(list, x)

\* if (this.useCustomModule) { list.push(x) }
Push(list, x, custom) == IF custom THEN Append(list, x) ELSE list

\* an additive call, with the builder configuration it found
Added == [Call("add", "none") EXCEPT !.before = builderVars]

\* withImports(m): pushed only in custom mode
WithImports(m) ==
    /\ Len(imports) < MaxImports
    /\ imports' = Push(imports, m, useCustomModule)
    /\ last' = Added
    /\ UNCHANGED <<callVars, controllers, providers, providerOverrides, useCustomModule, contextVars,
                   nestVars, pgVars, genVars, afterCleanup>>

\* withControllers(c): pushed only in custom mode
WithControllers(c) ==
    /\ Len(controllers) < MaxImports
    /\ controllers' = Push(controllers, c, useCustomModule)
    /\ last' = Added
    /\ UNCHANGED <<callVars, imports, providers, providerOverrides, useCustomModule, contextVars,
                   nestVars, pgVars, genVars, afterCleanup>>

\* withProviders(p): pushed only in custom mode
WithProviders(p) ==
    /\ Len(providers) < MaxImports
    /\ providers' = Push(providers, p, useCustomModule)
    /\ last' = Added
    /\ UNCHANGED <<callVars, imports, controllers, providerOverrides, useCustomModule, contextVars,
                   nestVars, pgVars, genVars, afterCleanup>>

\* overrideProvider(token, useValue)
OverrideProvider(token, v) ==
    /\ Len(providerOverrides) < MaxOverrides
    /\ providerOverrides' = Append(providerOverrides,
                                    Entry(token, v, "undefined", "undefined", "undefined"))
    /\ last' = Call("configure", "none")
    /\ UNCHANGED <<callVars, imports, controllers, providers, useCustomModule, contextVars, nestVars, pgVars, genVars,
                   afterCleanup>>

\* overrideProviderWithClass(token, useClass)
OverrideProviderWithClass(token, c) ==
    /\ Len(providerOverrides) < MaxOverrides
    /\ providerOverrides' = Append(providerOverrides,
                                    Entry(token, "undefined", c, "undefined", "undefined"))
    /\ last' = Call("configure", "none")
    /\ UNCHANGED <<callVars, imports, controllers, providers, useCustomModule, contextVars, nestVars, pgVars, genVars,
                   afterCleanup>>

\* overrideProviderWithFactory(token, useFactory, inject)
OverrideProviderWithFactory(token, fn, inject) ==
    /\ Len(providerOverrides) < MaxOverrides
    /\ providerOverrides' = Append(providerOverrides,
                                    Entry(token, "undefined", "undefined", fn, inject))
    /\ last' = Call("configure", "none")
    /\ UNCHANGED <<callVars, imports, controllers, providers, useCustomModule, contextVars, nestVars, pgVars, genVars,
                   afterCleanup>>

-----------------------------------------------------------------------------
(* E2ETestSetup.setupApp()                                                 *)

\* the db and factories fields after the try/catch around app.get: both are
\* assigned when the token resolves, neither is touched when app.get throws
ResolveDatabase(inst, n, oldDb, oldFactories) ==
    IF Provides(inst)
    THEN [db |-> Resolve(inst, n),
          factories |-> [present |-> TRUE, db |-> Resolve(inst, n), map |-> {}, built |-> 0]]
    ELSE [db |-> oldDb, factories |-> oldFactories]

SetupApp ==
    /\ Len(instances) < MaxApps
    /\ IF ~CompileOk(imports)
       THEN \* compile() rejects: nothing is assigned
            /\ last' = [Call("setupApp", "none") EXCEPT
                          !.raised = TRUE, !.calls = FactoryCalls(providerOverrides)]
            /\ UNCHANGED <<contextVars, nestVars>>
       ELSE LET n == Len(instances) + 1
                inst == [imports |-> imports, controllers |-> controllers,
                         providers |-> providers,
                         overrides |-> ApplyOverrides(providerOverrides, 1, NoOverrides)]
                r == ResolveDatabase(inst, n, db, factories)
            IN  /\ instances' = Append(instances, [closeCalls |-> 0])
                /\ built' = inst
                /\ app' = n
                /\ db' = r.db
                /\ factories' = r.factories
                /\ last' = [Call("setupApp", "none") EXCEPT
                              !.calls = FactoryCalls(providerOverrides),
                              !.trace = Stmt("app.init", TRUE)
                                        \o Stmt("app.get DATABASE_CONNECTION", Provides(inst))]
    /\ UNCHANGED <<callVars, builderVars, pgVars, genVars, afterCleanup>>

-----------------------------------------------------------------------------
(* E2ETestSetup.cleanup(), teardown(), getFactory()                        *)

\* cleanup(): if (this.factories) await this.factories.cleanup()
SetupCleanup(regs, d, f) ==
    IF regs.present THEN TestFactoriesCleanup(regs, d, f)
    ELSE [pg |-> d, raised |-> FALSE, trace |-> <<>>]

\* how a registry cleanup went, for afterCleanup
Went(trace) == IF trace[1].ok THEN "bulk" ELSE "fallback"

Cleanup(f) ==
    \E r \in {SetupCleanup(factories, PG, f)} :
        /\ SetPG(r.pg)
        /\ last' = [Call("cleanup", "none") EXCEPT
                      !.raised = r.raised, !.trace = r.trace]
        /\ afterCleanup' = IF factories.present
                           THEN [t \in FactoryTypes |-> Went(r.trace)]
                           ELSE afterCleanup
        /\ UNCHANGED <<callVars, builderVars, contextVars, nestVars, genVars>>

\* mutant: close() reaches every application the builder has started
Close_Every(insts, a) == [n \in DOMAIN insts |-> [insts[n] EXCEPT !.closeCalls = @ + 1]]

\* this.app.close(): the application the builder references is shut down
Close(insts, a) == [insts EXCEPT ![a].closeCalls = @ + 1]

\* mutant: teardown closes the application before it cleans up
SetupTeardown_CloseFirst(regs, d, f, a) ==
    LET r == SetupCleanup(regs, d, f)
    IN  IF a # 0
        THEN [pg |-> r.pg, raised |-> r.raised, trace |-> Stmt("app.close", TRUE) \o r.trace,
              closed |-> TRUE]
        ELSE [pg |-> r.pg, raised |-> r.raised, trace |-> r.trace, closed |-> FALSE]

\* teardown(): await this.cleanup(); if (this.app) await this.app.close()
SetupTeardown(regs, d, f, a) ==
    LET r == SetupCleanup(regs, d, f)
    IN  IF r.raised THEN [pg |-> r.pg, raised |-> TRUE, trace |-> r.trace, closed |-> FALSE]
        ELSE IF a # 0
        THEN [pg |-> r.pg, raised |-> FALSE, trace |-> r.trace \o Stmt("app.close", TRUE),
              closed |-> TRUE]
        ELSE [pg |-> r.pg, raised |-> FALSE, trace |-> r.trace, closed |-> FALSE]

Teardown(f) ==
    \E r \in {SetupTeardown(factories, PG, f, app)} :
        /\ app # 0 => instances[app].closeCalls < MaxCloses
        /\ SetPG(r.pg)
        /\ instances' = IF r.closed THEN Close(instances, app) ELSE instances
        /\ last' = [Call("teardown", "none") EXCEPT
                      !.raised = r.raised, !.trace = r.trace]
        /\ afterCleanup' = IF factories.present
                           THEN [t \in FactoryTypes |-> Went(r.trace)]
                           ELSE afterCleanup
        /\ UNCHANGED <<callVars, builderVars, contextVars, built, genVars>>

\* getFactory(type): throws when this.factories is not set
SetupGetFactory(regs, type) ==
    IF ~regs.present THEN [factories |-> regs, raised |-> TRUE, ret |-> NoInstance]
    ELSE LET reg2 == TestFactoriesGet(regs, type)
         IN  [factories |-> reg2, raised |-> FALSE, ret |-> Cached(reg2, type)]

GetFactory(type) ==
    \E r \in {SetupGetFactory(factories, type)} :
        /\ factories' = r.factories
        /\ last' = [Call("getFactory", type) EXCEPT !.raised = r.raised, !.ret = r.ret]
        /\ UNCHANGED <<callVars, builderVars, app, db, nestVars, pgVars, genVars, afterCleanup>>

-----------------------------------------------------------------------------
(* Calls on the factories obtained from the registry                       *)

\* schoolFactory.create(overrides): getDefaultData() draws one unique id
SchoolCreate(rnd, overrides) ==
    /\ factories.present /\ Has(factories, "school")
    /\ schools_id_seq < MaxId
    /\ counter < MaxCounter
    /\ \E r \in {SchoolFactoryCreate(PG, Cached(factories, "school").db, counter, now,
                                    rnd, overrides)} :
           /\ SetPG(r.pg)
           /\ counter' = GetUniqueId(counter)
           /\ last' = [Call("create", "school") EXCEPT
                         !.raised = r.raised, !.row = r.row, !.trace = r.trace,
                         !.after = afterCleanup["school"],
                         !.overridden = (overrides # NoOverrides),
                         !.fresh = \A s \in schools : s.id # r.row.id,
                         !.given = overrides, !.data = r.data, !.before = schools,
                         !.rows = IF r.raised THEN <<>> ELSE <<r.row>>]
    /\ afterCleanup' = [afterCleanup EXCEPT !["school"] = "no"]
    /\ UNCHANGED <<callVars, builderVars, contextVars, nestVars, now>>

\* schoolFactory.create(overrides) up to its first await: the payload is built
\* synchronously, which draws one unique id; the insert is still to run
SchoolCreateBegin(rnd, overrides) ==
    /\ factories.present /\ Has(factories, "school")
    /\ counter < MaxCounter
    /\ Len(pending) < MaxPending
    /\ pending' = Append(pending, Merge(SchoolDefaultData(counter, now, rnd), overrides))
    /\ counter' = GetUniqueId(counter)
    /\ last' = [Call("create.begin", "school") EXCEPT
                  !.overridden = (overrides # NoOverrides),
                  !.given = overrides, !.data = <<pending'[Len(pending')]>>]
    /\ UNCHANGED <<builderVars, contextVars, nestVars, pgVars, now, afterCleanup>>

\* the insert of the k-th create() in flight runs and the call returns
SchoolCreateEnd(k) ==
    /\ k \in 1..Len(pending)
    /\ factories.present /\ Has(factories, "school")
    /\ schools_id_seq < MaxId
    /\ \E r \in {SchoolFactoryInsert(PG, Cached(factories, "school").db, pending[k])} :
           /\ SetPG(r.pg)
           /\ last' = [Call("create.end", "school") EXCEPT
                         !.raised = r.raised, !.row = r.row, !.trace = r.trace,
                         !.after = afterCleanup["school"],
                         !.fresh = \A s \in schools : s.id # r.row.id,
                         !.data = r.data, !.before = schools,
                         !.rows = IF r.raised THEN <<>> ELSE <<r.row>>]
    /\ pending' = [i \in 1..(Len(pending) - 1) |-> IF i < k THEN pending[i] ELSE pending[i + 1]]
    /\ afterCleanup' = [afterCleanup EXCEPT !["school"] = "no"]
    /\ UNCHANGED <<builderVars, contextVars, nestVars, genVars>>

\* teacherFactory.create(overrides)
TeacherCreate(overrides) ==
    /\ factories.present /\ Has(factories, "teacher")
    /\ teachers_id_seq < MaxId
    /\ \E r \in {TeacherFactoryCreate(PG, Cached(factories, "teacher").db, now, overrides)} :
           /\ SetPG(r.pg)
           /\ last' = [Call("create", "teacher") EXCEPT
                         !.raised = r.raised, !.row = r.row, !.trace = r.trace,
                         !.after = afterCleanup["teacher"],
                         !.overridden = (overrides # NoOverrides),
                         !.fresh = \A t \in teachers : t.id # r.row.id,
                         !.given = overrides, !.data = r.data, !.before = teachers,
                         !.rows = IF r.raised THEN <<>> ELSE <<r.row>>]
    /\ afterCleanup' = [afterCleanup EXCEPT !["teacher"] = "no"]
    /\ UNCHANGED <<callVars, builderVars, contextVars, nestVars, genVars>>

\* schoolFactory.createMany(Len(rnds), overrides): each getDefaultData() draws
\* one unique id
SchoolCreateMany(rnds, overrides) ==
    /\ factories.present /\ Has(factories, "school")
    /\ schools_id_seq + Len(rnds) <= MaxId
    /\ counter + Len(rnds) <= MaxCounter
    /\ \E r \in {SchoolFactoryCreateMany(PG, Cached(factories, "school").db, counter, now,
                                        rnds, overrides)} :
           /\ SetPG(r.pg)
           /\ counter' = counter + Len(rnds)
           /\ last' = [Call("createMany", "school") EXCEPT
                         !.raised = r.raised, !.trace = r.trace,
                         !.after = afterCleanup["school"],
                         !.overridden = (overrides # NoOverrides),
                         !.given = overrides, !.data = r.data, !.before = schools,
                         !.rows = r.rows]
    /\ afterCleanup' = [afterCleanup EXCEPT !["school"] = "no"]
    /\ UNCHANGED <<callVars, builderVars, contextVars, nestVars, now>>

\* teacherFactory.createMany(count, overrides)
TeacherCreateMany(count, overrides) ==
    /\ factories.present /\ Has(factories, "teacher")
    /\ teachers_id_seq + count <= MaxId
    /\ \E r \in {TeacherFactoryCreateMany(PG, Cached(factories, "teacher").db, now,
                                         count, overrides)} :
           /\ SetPG(r.pg)
           /\ last' = [Call("createMany", "teacher") EXCEPT
                         !.raised = r.raised, !.trace = r.trace,
                         !.after = afterCleanup["teacher"],
                         !.overridden = (overrides # NoOverrides),
                         !.given = overrides, !.data = r.data, !.before = teachers,
                         !.rows = r.rows]
    /\ afterCleanup' = [afterCleanup EXCEPT !["teacher"] = "no"]
    /\ UNCHANGED <<callVars, builderVars, contextVars, nestVars, genVars>>

\* factory.cleanup() called on an obtained factory
FactoryCleanupCall(type, f) ==
    /\ factories.present /\ Has(factories, type)
    /\ \E r \in {FactoryCleanup(type, PG, Cached(factories, type).db, f)} :
           /\ SetPG(r.pg)
           /\ last' = [Call("factory.cleanup", type) EXCEPT
                         !.raised = r.raised, !.trace = r.trace, !.before = PG]
    /\ UNCHANGED <<callVars, builderVars, contextVars, nestVars, genVars, afterCleanup>>

\* TestDataGenerator.randomInt(min, max) called by a test
RandomIntCall(min, max, r) ==
    /\ \E res \in {RandomInt(min, max, r)} :
           last' = [Call("randomInt", "none") EXCEPT
                      !.raised = res.raised, !.given = <<min, max>>, !.value = res.value]
    /\ UNCHANGED <<callVars, builderVars, contextVars, nestVars, pgVars, genVars, afterCleanup>>

-----------------------------------------------------------------------------
(* The HTTP surface of the running application                             *)

\* the application answers while it has not been closed
Serving == app # 0 /\ instances[app].closeCalls = 0

\* the body the e2e tests post
SchoolDto == [name |-> <<"Test School 1">>, address |-> <<"123 Test Street">>,
              phone |-> <<"+1234567890">>, email |-> <<"school1@test.com">>]

\* SchoolRepository.findAll(): select().from(schools), what GET /schools answers
SchoolRepositoryFindAll(d) == d.schools

\* SchoolRepository.create(school): insert(schools).values(school).returning()
SchoolRepositoryCreate(d, h, dto) == InsertSchool(d, h, dto)

\* the SchoolService the controller was given: the override installed for the
\* token, or the real service
SchoolServiceOf(inst) ==
    IF "SchoolService" \in DOMAIN inst.overrides THEN inst.overrides["SchoolService"]
    ELSE "real"

\* what the mock's findAll resolves to
MockSchool == [id |-> 1, name |-> <<"Mock School">>]

\* mutant: the controller always reaches the real service
SchoolControllerFindAll_Real(inst, d, h) ==
    IF h.kind = "conn" THEN [status |-> 200, body |-> SchoolRepositoryFindAll(d)]
    ELSE [status |-> 500, body |-> {}]

\* SchoolController.findAll(): this.schoolService.findAll(); the real service
\* reads the table through the application's connection, a substituted
\* service answers its own value, a null service cannot be called
SchoolControllerFindAll(inst, d, h) ==
    IF SchoolServiceOf(inst) = "real"
    THEN IF h.kind = "conn" THEN [status |-> 200, body |-> SchoolRepositoryFindAll(d)]
         ELSE [status |-> 500, body |-> {}]
    ELSE IF SchoolServiceOf(inst) = "null" THEN [status |-> 500, body |-> {}]
    ELSE [status |-> 200, body |-> {MockSchool}]

\* GET /schools
GetSchools ==
    /\ Serving
    /\ "AppModule" \in Graph(built.imports)
    /\ \E r \in {SchoolControllerFindAll(built, PG, Resolve(built, app))} :
           last' = [Call("GET /schools", "school") EXCEPT
                      !.raised = (r.status # 200), !.status = r.status, !.body = r.body]
    /\ UNCHANGED <<callVars, builderVars, contextVars, nestVars, pgVars, genVars, afterCleanup>>

\* SchoolRepository.findById(id): result[0] || null
SchoolRepositoryFindById(d, id) ==
    IF \E s \in d.schools : s.id = id THEN CHOOSE s \in d.schools : s.id = id ELSE NoRow

\* SchoolService.findById(id): NotFoundException when the repository answers null
SchoolServiceFindById(d, id) ==
    LET school == SchoolRepositoryFindById(d, id)
    IN  IF school = NoRow THEN [status |-> 404, body |-> NoRow]
        ELSE [status |-> 200, body |-> school]

\* GET /schools/:id -> SchoolController.findOne -> SchoolService.findById
GetSchool(id) ==
    /\ Serving
    /\ "AppModule" \in Graph(built.imports)
    /\ SchoolServiceOf(built) = "real"
    /\ Resolve(built, app).kind = "conn"
    /\ \E r \in {SchoolServiceFindById(PG, id)} :
           last' = [Call("GET /schools/:id", "school") EXCEPT
                      !.raised = (r.status # 200), !.row = r.body,
                      !.given = <<id>>, !.status = r.status, !.before = PG]
    /\ UNCHANGED <<callVars, builderVars, contextVars, nestVars, pgVars, genVars, afterCleanup>>

\* POST /schools -> SchoolController.create -> SchoolService.create ->
\* SchoolRepository.create
PostSchools ==
    /\ Serving
    /\ "AppModule" \in Graph(built.imports)
    /\ SchoolServiceOf(built) = "real"
    /\ schools_id_seq < MaxId
    /\ \E r \in {SchoolRepositoryCreate(PG, Resolve(built, app), SchoolDto)} :
           /\ SetPG(r.pg)
           /\ last' = [Call("POST /schools", "school") EXCEPT
                         !.raised = ~r.ok, !.row = IF r.ok THEN r.row ELSE NoRow,
                         !.trace = Stmt("INSERT schools", r.ok)]
    /\ afterCleanup' = [afterCleanup EXCEPT !["school"] = "no"]
    /\ UNCHANGED <<callVars, builderVars, contextVars, nestVars, genVars>>

\* TeacherRepository.findById(id): result[0] || null
TeacherRepositoryFindById(d, id) ==
    IF \E t \in d.teachers : t.id = id THEN CHOOSE t \in d.teachers : t.id = id ELSE NoRow

\* TeacherService.findById(id): NotFoundException when the repository answers null
TeacherServiceFindById(d, id) ==
    LET teacher == TeacherRepositoryFindById(d, id)
    IN  IF teacher = NoRow THEN [status |-> 404, body |-> NoRow]
        ELSE [status |-> 200, body |-> teacher]

\* result.length of a statement's result: the number of rows it returned
LengthOf(result) == Cardinality(result.rows)

\* BaseRepository.wasAffected(result): result.count > 0
WasAffected(result) == result.count > 0

\* the two SchoolRepository sources: the one that extends BaseRepository
\* answers wasAffected(result) from delete, the standalone one
\* result.length > 0
SchoolRepositories == {"base", "standalone"}

\* SchoolRepository.delete(id)
SchoolRepositoryDelete(d, h, id, repo) ==
    LET r == DeleteSchoolRow(d, h, id)
    IN  [ok |-> r.ok, pg |-> r.pg,
         deleted |-> IF repo = "base" THEN WasAffected(r.result) ELSE LengthOf(r.result) > 0]

\* TeacherRepository.delete(id): result.length > 0
TeacherRepositoryDelete(d, h, id) ==
    LET r == DeleteTeacherRow(d, h, id)
    IN  [ok |-> r.ok, pg |-> r.pg, deleted |-> LengthOf(r.result) > 0]

\* mutant: a missing row is not reported
Answer_NoNotFound(ok, found, status) == IF ~ok THEN 500 ELSE status

\* an answer of the application: a statement the server refused is an
\* unhandled error (500), a NotFoundException is 404
Answer(ok, found, status) == IF ~ok THEN 500 ELSE IF ~found THEN 404 ELSE status

\* SchoolService.delete(id) under SchoolController.remove, @HttpCode(204)
SchoolControllerRemove(d, h, id, repo) ==
    LET r == SchoolRepositoryDelete(d, h, id, repo)
    IN  [pg |-> r.pg, status |-> Answer(r.ok, r.deleted, 204)]

\* TeacherService.delete(id) under TeacherController.remove: no @HttpCode,
\* the framework's default for DELETE is 200
TeacherControllerRemove(d, h, id) ==
    LET r == TeacherRepositoryDelete(d, h, id)
    IN  [pg |-> r.pg, status |-> Answer(r.ok, r.deleted, 200)]

\* SchoolRepository.update / SchoolService.update under SchoolController.update:
\* result[0] || null, NotFoundException on null
SchoolControllerUpdate(d, h, id, dto) ==
    LET r == UpdateSchoolRow(d, h, id, dto)
    IN  [pg |-> r.pg, status |-> Answer(r.ok, r.result.rows # {}, 200)]

\* TeacherRepository.update / TeacherService.update under TeacherController.update
TeacherControllerUpdate(d, h, id, dto) ==
    LET r == UpdateTeacherRow(d, h, id, dto)
    IN  [pg |-> r.pg, status |-> Answer(r.ok, r.result.rows # {}, 200)]

\* the application is served from the production root with its real services
\* and a live connection
ServingReal ==
    /\ Serving
    /\ "AppModule" \in Graph(built.imports)
    /\ SchoolServiceOf(built) = "real"
    /\ Resolve(built, app).kind = "conn"

\* the record of a request on one row
Request(op, type, id, status) ==
    [Call(op, type) EXCEPT !.raised = (status >= 400), !.status = status,
                           !.given = <<id>>, !.before = PG]

\* GET /teachers/:id
GetTeacher(id) ==
    /\ ServingReal
    /\ \E r \in {TeacherServiceFindById(PG, id)} :
           last' = [Request("GET /teachers/:id", "teacher", id, r.status) EXCEPT !.row = r.body]
    /\ UNCHANGED <<callVars, builderVars, contextVars, nestVars, pgVars, genVars, afterCleanup>>

\* POST /teachers -> TeacherRepository.create
PostTeachers(dto) ==
    /\ ServingReal
    /\ teachers_id_seq < MaxId
    /\ \E r \in {InsertTeacher(PG, Resolve(built, app), dto)} :
           /\ SetPG(r.pg)
           /\ last' = [Request("POST /teachers", "teacher", 0, IF r.ok THEN 201 ELSE 500)
                         EXCEPT !.row = IF r.ok THEN r.row ELSE NoRow,
                                !.data = <<dto>>,
                                !.trace = Stmt("INSERT teachers", r.ok)]
    /\ afterCleanup' = [afterCleanup EXCEPT !["teacher"] = "no"]
    /\ UNCHANGED <<callVars, builderVars, contextVars, nestVars, genVars>>

\* PUT /schools/:id
PutSchool(id, dto) ==
    /\ ServingReal
    /\ \E r \in {SchoolControllerUpdate(PG, Resolve(built, app), id, dto)} :
           /\ SetPG(r.pg)
           /\ last' = Request("PUT /schools/:id", "school", id, r.status)
    /\ UNCHANGED <<callVars, builderVars, contextVars, nestVars, genVars, afterCleanup>>

\* PUT /teachers/:id
PutTeacher(id, dto) ==
    /\ ServingReal
    /\ \E r \in {TeacherControllerUpdate(PG, Resolve(built, app), id, dto)} :
           /\ SetPG(r.pg)
           /\ last' = Request("PUT /teachers/:id", "teacher", id, r.status)
    /\ UNCHANGED <<callVars, builderVars, contextVars, nestVars, genVars, afterCleanup>>

\* DELETE /schools/:id
DeleteSchool(id) ==
    /\ ServingReal
    /\ \E repo \in SchoolRepositories :
       \E r \in {SchoolControllerRemove(PG, Resolve(built, app), id, repo)} :
           /\ SetPG(r.pg)
           /\ last' = Request("DELETE /schools/:id", "school", id, r.status)
    /\ UNCHANGED <<callVars, builderVars, contextVars, nestVars, genVars, afterCleanup>>

\* DELETE /teachers/:id
DeleteTeacher(id) ==
    /\ ServingReal
    /\ \E r \in {TeacherControllerRemove(PG, Resolve(built, app), id)} :
           /\ SetPG(r.pg)
           /\ last' = Request("DELETE /teachers/:id", "teacher", id, r.status)
    /\ UNCHANGED <<callVars, builderVars, contextVars, nestVars, genVars, afterCleanup>>

-----------------------------------------------------------------------------
(* The clock                                                               *)

Tick ==
    /\ now < MaxClock
    /\ now' = now + 1
    /\ UNCHANGED <<callVars, builderVars, contextVars, nestVars, pgVars, counter, last,
                   afterCleanup>>

-----------------------------------------------------------------------------
(* Specifications                                                          *)

SchoolOverrides == {NoOverrides}
TeacherOverrides == {NoOverrides}

\* every statement is accepted
NoFailure == [bulk |-> TRUE, tTrunc |-> TRUE, tDel |-> TRUE, tSeq |-> TRUE,
              sTrunc |-> TRUE, sDel |-> TRUE, sSeq |-> TRUE]

\* the failures of the statements one factory's cleanup issues: the bulk
\* truncate is not part of the call (its flag is not read), the other
\* factory's statements are not issued
SchoolFailures == {f \in Failures : ~f.bulk /\ f.tTrunc /\ f.tDel /\ f.tSeq}
TeacherFailures == {f \in Failures : ~f.bulk /\ f.sTrunc /\ f.sDel /\ f.sSeq}

\* Spec: one context built once on the full AppModule; seeding through the
\* factories, requests, cleanups, the clock
Next ==
    \/ (app = 0 /\ SetupApp)
    \/ \E t \in FactoryTypes : GetFactory(t)
    \/ \E o \in SchoolOverrides : SchoolCreate(1, o)
    \/ \E o \in TeacherOverrides : TeacherCreate(o)
    \/ PostSchools
    \/ \E f \in Failures : Cleanup(f)
    \/ \E t \in FactoryTypes : FactoryCleanupCall(t, NoFailure)
    \/ Tick

Spec == Init /\ [][Next]_vars

\* SpecBuild: the builder's configuration calls, builds and factory lookups
NextBuild ==
    \/ WithAppModule
    \/ WithCustomModule
    \/ \E m \in Modules : WithImports(m)
    \/ \E v \in OverrideValues : OverrideProvider("DATABASE_CONNECTION", v)
    \/ SetupApp
    \/ \E t \in FactoryTypes : GetFactory(t)

SpecBuild == Init /\ [][NextBuild]_vars

\* SpecRegistry: contexts built over the production root, with or without a
\* replaced DATABASE_CONNECTION, and factories requested from the registry
NextRegistry ==
    \/ \E v \in OverrideValues : OverrideProvider("DATABASE_CONNECTION", v)
    \/ SetupApp
    \/ \E t \in FactoryTypes : GetFactory(t)

SpecRegistry == Init /\ [][NextRegistry]_vars

\* the bodies the tests send to /teachers: with or without a school, stored
\* or not
TeacherDtos ==
    {[firstName |-> <<"John">>, lastName |-> <<"Doe">>, email |-> <<e>>,
      phone |-> NULL, subject |-> NULL, schoolId |-> i] :
        e \in {"john@test.com", "jane@test.com"}, i \in {NullId} \cup 1..MaxId}
SchoolPatches == {[name |-> <<"Updated School">>]}
TeacherPatches == {[email |-> <<"john@test.com">>]} \cup {[schoolId |-> i] : i \in 1..MaxId}

\* SpecHttp: one application on the full AppModule; requests on both entity
\* types, on stored and on missing identifiers
NextHttp ==
    \/ (app = 0 /\ SetupApp)
    \/ PostSchools
    \/ \E dto \in TeacherDtos : PostTeachers(dto)
    \/ \E id \in 1..MaxId : GetSchool(id)
    \/ \E id \in 1..MaxId : GetTeacher(id)
    \/ \E id \in 1..MaxId, dto \in SchoolPatches : PutSchool(id, dto)
    \/ \E id \in 1..MaxId, dto \in TeacherPatches : PutTeacher(id, dto)
    \/ \E id \in 1..MaxId : DeleteSchool(id)
    \/ \E id \in 1..MaxId : DeleteTeacher(id)

SpecHttp == Init /\ [][NextHttp]_vars

\* SpecApps: builds repeated on one builder in either mode, cleanups and
\* teardowns between and after them
BulkFailure == [NoFailure EXCEPT !.bulk = FALSE]

NextApps ==
    \/ WithAppModule
    \/ WithCustomModule
    \/ \E m \in Modules : WithImports(m)
    \/ SetupApp
    \/ \E f \in {NoFailure, BulkFailure} : Cleanup(f)
    \/ \E f \in {NoFailure, BulkFailure} : Teardown(f)

SpecApps == Init /\ [][NextApps]_vars

\* SpecRandom: calls of TestDataGenerator.randomInt with bounds in either order
NextRandom ==
    \E min \in -MaxRange..MaxRange, max \in -MaxRange..MaxRange, r \in 1..MaxRand :
        RandomIntCall(min, max, r)

SpecRandom == Init /\ [][NextRandom]_vars

\* SpecTeardown: one context built once in either mode; requests, cleanups
\* and teardowns
NextTeardown ==
    \/ WithAppModule
    \/ WithCustomModule
    \/ (app = 0 /\ SetupApp)
    \/ \E t \in FactoryTypes : GetFactory(t)
    \/ PostSchools
    \/ \E f \in Failures : Cleanup(f)
    \/ \E f \in Failures : Teardown(f)

SpecTeardown == Init /\ [][NextTeardown]_vars

\* the overrides the tests pass to SchoolFactory: none, a name, a name with
\* the nullable address set to null
SchoolOverrideSets ==
    {NoOverrides,
     [name |-> <<"Specific Test School">>],
     [name |-> <<"Specific Test School">>, address |-> NULL]}

\* a School object whose row is not stored
GhostSchool == [id |-> MaxId + 1, name |-> <<"Gone">>, address |-> NULL,
                phone |-> NULL, email |-> NULL]

\* overrides of TeacherFactory that name a school (stored or not), alone or
\* together with a raw schoolId
SchoolAssociations ==
    {[school |-> s] : s \in schools \cup {GhostSchool}}
        \cup {[school |-> s, schoolId |-> i] :
                 s \in schools, i \in {NullId} \cup {x.id : x \in schools}}

\* overrides of TeacherFactory that set the email
EmailOverrides == {[email |-> <<"shared@test.com">>]}

\* overrides that leave out the NOT NULL name of a school
NullName == [name |-> NULL]

\* the random parts drawn by the getDefaultData() calls of a batch
Rnds == UNION {[1..n -> 1..MaxRand] : n \in 1..MaxBatch}

\* SpecTeacherBatch: one context built once on the full AppModule; batches and
\* single creates of teachers that the database accepts or refuses, the clock
NextTeacherBatch ==
    \/ (app = 0 /\ SetupApp)
    \/ GetFactory("teacher")
    \/ \E o \in {NoOverrides} \cup EmailOverrides : TeacherCreate(o)
    \/ \E n \in 1..MaxBatch, o \in {NoOverrides} \cup EmailOverrides : TeacherCreateMany(n, o)
    \/ Tick

SpecTeacherBatch == Init /\ [][NextTeacherBatch]_vars

\* SpecSchoolBatch: one context built once on the full AppModule; batches of
\* schools, the clock
NextSchoolBatch ==
    \/ (app = 0 /\ SetupApp)
    \/ GetFactory("school")
    \/ \E rnds \in Rnds, o \in {NoOverrides, NullName} : SchoolCreateMany(rnds, o)
    \/ Tick

SpecSchoolBatch == Init /\ [][NextSchoolBatch]_vars

\* SpecFactoryCleanup: one context built once on the full AppModule; rows of
\* both types, teachers with and without a school; each factory's own
\* cleanup with every combination of failing statements
NextFactoryCleanup ==
    \/ (app = 0 /\ SetupApp)
    \/ \E t \in FactoryTypes : GetFactory(t)
    \/ SchoolCreate(1, NoOverrides)
    \/ \E o \in {NoOverrides} \cup SchoolAssociations : TeacherCreate(o)
    \/ \E f \in SchoolFailures : FactoryCleanupCall("school", f)
    \/ \E f \in TeacherFailures : FactoryCleanupCall("teacher", f)

SpecFactoryCleanup == Init /\ [][NextFactoryCleanup]_vars

\* SpecGenerator: contexts built on the full AppModule; school creates, alone,
\* in batches and in flight together; every cleanup path and teardown
NextGenerator ==
    \/ SetupApp
    \/ GetFactory("school")
    \/ SchoolCreate(1, NoOverrides)
    \/ \E n \in 1..MaxBatch : SchoolCreateMany([i \in 1..n |-> 1], NoOverrides)
    \/ SchoolCreateBegin(1, NoOverrides)
    \/ \E k \in 1..MaxPending : SchoolCreateEnd(k)
    \/ \E f \in SchoolFailures : FactoryCleanupCall("school", f)
    \/ \E f \in Failures : Cleanup(f)
    \/ \E f \in Failures : Teardown(f)

SpecGenerator == Init /\ [][NextGenerator]_vars

\* SpecOverride: overrides of every shape for the database connection and
\* the school service, recorded in either mode, then one build; seeding
\* through the school factory and GET /schools
Tokens == {"DATABASE_CONNECTION", "SchoolService"}

NextOverride ==
    \/ WithAppModule
    \/ WithCustomModule
    \/ \E token \in Tokens, v \in OverrideValues : OverrideProvider(token, v)
    \/ \E token \in Tokens, c \in OverrideClasses : OverrideProviderWithClass(token, c)
    \/ \E token \in Tokens, fn \in OverrideFactories : OverrideProviderWithFactory(token, fn, <<>>)
    \/ (app = 0 /\ SetupApp)
    \/ GetFactory("school")
    \/ SchoolCreate(1, NoOverrides)
    \/ GetSchools

SpecOverride == Init /\ [][NextOverride]_vars

\* SpecFactoryOverride: overrides by value and by factory function, with and
\* without dependencies listed, recorded in either mode and built repeatedly
NextFactoryOverride ==
    \/ WithAppModule
    \/ WithCustomModule
    \/ \E m \in Modules : WithImports(m)
    \/ \E token \in Tokens : OverrideProvider(token, "mock")
    \/ \E token \in Tokens, fn \in OverrideFactories, inject \in Deps :
           OverrideProviderWithFactory(token, fn, inject)
    \/ SetupApp

SpecFactoryOverride == Init /\ [][NextFactoryOverride]_vars

\* SpecCompose: mode switches and additive calls in any order around one
\* build; controllers and providers that need nothing injected
Controllers == {"PingController"}
Providers == {"PingProvider"}

NextCompose ==
    \/ WithAppModule
    \/ WithCustomModule
    \/ \E m \in Modules : WithImports(m)
    \/ \E c \in Controllers : WithControllers(c)
    \/ \E q \in Providers : WithProviders(q)
    \/ \E v \in {"mock"} : OverrideProvider("DATABASE_CONNECTION", v)
    \/ (app = 0 /\ SetupApp)

SpecCompose == Init /\ [][NextCompose]_vars

\* SpecCreate: one context built once on the full AppModule; creates with
\* overrides of attributes and of the school association, reads of single
\* schools
NextCreate ==
    \/ (app = 0 /\ SetupApp)
    \/ \E t \in FactoryTypes : GetFactory(t)
    \/ \E o \in SchoolOverrideSets : SchoolCreate(1, o)
    \/ \E o \in {NoOverrides} \cup EmailOverrides \cup SchoolAssociations : TeacherCreate(o)
    \/ \E n \in 1..MaxBatch, o \in SchoolAssociations : TeacherCreateMany(n, o)
    \/ \E id \in 1..MaxId : GetSchool(id)

SpecCreate == Init /\ [][NextCreate]_vars

\* overrides of TeacherFactory that give a raw schoolId, stored or not
RawSchoolIds == {[schoolId |-> i] : i \in 1..MaxId}

\* SpecIntegrity: one application on the full AppModule whose test obtains both
\* factories before it seeds; rows created through the factories and over
\* HTTP, with and without a school, updates and deletes over HTTP, and every
\* cleanup path with every combination of failing statements
\* the bodies posted to /teachers here: one teacher, without a school or with
\* the school of the largest identifier
IntegrityDtos ==
    {x \in TeacherDtos : x.email = <<"john@test.com">> /\ x.schoolId \in {NullId, MaxId}}

BothFactories == factories.present /\ \A t \in FactoryTypes : Has(factories, t)

NextIntegrity ==
    \/ (app = 0 /\ SetupApp)
    \/ \E t \in FactoryTypes : (~BothFactories /\ GetFactory(t))
    \/ (BothFactories /\ PostSchools)
    \/ \E o \in RawSchoolIds : (BothFactories /\ TeacherCreate(o))
    \/ \E dto \in IntegrityDtos : (BothFactories /\ PostTeachers(dto))
    \/ \E id \in 1..MaxId, dto \in RawSchoolIds : (BothFactories /\ PutTeacher(id, dto))
    \/ \E id \in 1..MaxId : (BothFactories /\ DeleteSchool(id))
    \/ \E id \in 1..MaxId : (BothFactories /\ DeleteTeacher(id))
    \/ \E f \in Failures : (BothFactories /\ Cleanup(f))
    \/ \E f \in SchoolFailures : (BothFactories /\ FactoryCleanupCall("school", f))
    \/ \E f \in TeacherFailures : (BothFactories /\ FactoryCleanupCall("teacher", f))

SpecIntegrity == Init /\ [][NextIntegrity]_vars

-----------------------------------------------------------------------------
(* Reading a call's statements                                             *)

\* the positions of statement name in a trace
At(trace, name) == {i \in 1..Len(trace) : trace[i].stmt = name}

\* the registry's bulk truncate is the first statement of a registry cleanup
BulkOk(call) == Len(call.trace) > 0 /\ call.trace[1].stmt = "TRUNCATE teachers, schools"
                /\ call.trace[1].ok
BulkFailed(call) == Len(call.trace) > 0 /\ call.trace[1].stmt = "TRUNCATE teachers, schools"
                    /\ ~call.trace[1].ok

\* a call of registry.cleanup() has returned (through E2ETestSetup.cleanup())
RegistryCleaned == last.op = "cleanup" /\ last.hadFactories

-----------------------------------------------------------------------------
(* C1 - C4, C10: TestFactories.cleanup() and factory.create(), under Spec  *)

\* C1: after registry.cleanup() returns, schools and teachers are both empty
\* and GET /schools answers the empty collection, whatever preceded the
\* cleanup and whichever factories had been obtained.
C1_EmptyAfterCleanup ==
    RegistryCleaned =>
        /\ schools = {} /\ teachers = {}
        /\ SchoolRepositoryFindAll(PG) = {}

\* C2: after registry.cleanup() returns, the next factory.create() for School
\* and for Teacher returns a row with identifier 1, whichever cleanup path ran.
C2_FirstIdAfterCleanup ==
    (last.op = "create" /\ last.after # "no") => (~last.raised /\ last.row.id = 1)

\* C3: TestFactories.cleanup() never raises to its caller, whether the bulk
\* truncate, the per-entity truncates and the fallback statements succeed or
\* fail.
C3_CleanupNeverRaises ==
    RegistryCleaned => ~last.raised

\* C3 witness: a registry cleanup returned although the bulk truncate, a
\* factory's truncate and its fallback DELETE all failed
C3_Witness ==
    /\ RegistryCleaned /\ BulkFailed(last) /\ ~last.raised
    /\ \E i \in At(last.trace, "TRUNCATE teachers") : ~last.trace[i].ok
    /\ \E i \in At(last.trace, "DELETE teachers") : ~last.trace[i].ok

\* C4: when the bulk truncate fails, TestFactories.cleanup() calls the
\* cleanup() of Teacher and of School, Teacher's returning before School's is
\* called, whether or not the factory had been obtained through get().
C4_FallbackVisitsEveryType ==
    (RegistryCleaned /\ BulkFailed(last)) =>
        /\ At(last.trace, "call teacher.cleanup") # {}
        /\ At(last.trace, "call school.cleanup") # {}
        /\ \A i \in At(last.trace, "return teacher.cleanup"),
              j \in At(last.trace, "call school.cleanup") : i < j

\* the required (NOT NULL) columns of a returned row hold a non-empty text
RequiredFilled(type, row) ==
    IF type = "school" THEN row.name \notin {NULL, <<"">>}
    ELSE /\ row.firstName \notin {NULL, <<"">>}
         /\ row.lastName \notin {NULL, <<"">>}
         /\ row.email \notin {NULL, <<"">>}

\* the returned row is stored in its table
Persisted(type, row) == IF type = "school" THEN row \in schools ELSE row \in teachers

\* C10: every factory.create() with no overrides, at any clock value and after
\* any earlier creates, succeeds and returns a persisted row whose required
\* attributes are non-empty and whose identifier is a positive integer that no
\* stored row of the type carried.
C10_CreateAlwaysSucceeds ==
    (last.op = "create" /\ ~last.overridden) =>
        /\ ~last.raised
        /\ Persisted(last.type, last.row)
        /\ RequiredFilled(last.type, last.row)
        /\ last.row.id >= 1
        /\ last.fresh

-----------------------------------------------------------------------------
(* C5 - C7: setupApp() and getFactory(), under SpecBuild                   *)

\* a setupApp() has returned whose application does not provide
\* DATABASE_CONNECTION (app.get threw and was caught)
BuiltUnresolved ==
    /\ last.op = "setupApp" /\ ~last.raised
    /\ ~last.trace[2].ok

\* C5: after any setupApp() whose application cannot resolve
\* DATABASE_CONNECTION, the db handle and the factory registry are both unset
\* and getFactory() fails, also when an earlier setupApp() on the same builder
\* had resolved a handle.
C5_UnresolvedBuildUnsetsBoth ==
    BuiltUnresolved =>
        /\ ~IsPresent(db)
        /\ ~factories.present
        /\ \A t \in FactoryTypes : SetupGetFactory(factories, t).raised

\* C6: in every reachable state the db handle is present if and only if the
\* factory registry is present, for every value the composition root resolves
\* for DATABASE_CONNECTION, a value substituted by overrideProvider included.
C6_DbIffFactories ==
    IsPresent(db) <=> factories.present

\* C7: getFactory(type) fails exactly when no registry is attached and
\* otherwise returns registry.get(type); a context built with
\* withCustomModule() and no imports makes getFactory fail.
C7_GetFactoryFailsIffNoRegistry ==
    /\ last.op = "getFactory" =>
           /\ last.raised <=> ~last.hadFactories
           /\ ~last.raised => /\ Has(factories, last.type)
                              /\ last.ret = Cached(factories, last.type)
    /\ (app # 0 /\ built.imports = <<>>) =>
           \A t \in FactoryTypes : SetupGetFactory(factories, t).raised

-----------------------------------------------------------------------------
(* C8, C9: teardown(), under SpecTeardown                                  *)

\* C8: calling teardown() twice on the same context does not raise, and
\* app.close() is invoked at most once per started application.
C8_TeardownClosesOnce ==
    /\ last.op = "teardown" => ~last.raised
    /\ \A n \in 1..Len(instances) : instances[n].closeCalls <= 1

\* C9: teardown() performs the registry cleanup before the application
\* shutdown (app.close() starts only after every cleanup statement), and on a
\* builder on which setupApp() was never called it performs neither and does
\* not raise.
C9_CleanupBeforeShutdown ==
    last.op = "teardown" =>
        /\ ~last.raised
        /\ \A i \in At(last.trace, "app.close") : i = Len(last.trace)
        /\ last.hadFactories =>
               /\ Len(last.trace) > 0
               /\ last.trace[1].stmt = "TRUNCATE teachers, schools"
        /\ app # 0 => At(last.trace, "app.close") # {}
        /\ Len(instances) = 0 => last.trace = <<>>

\* C9 witness: a teardown whose bulk truncate failed ran the fallback cleanup
\* of an obtained factory and then closed the application
C9_Witness ==
    /\ last.op = "teardown" /\ BulkFailed(last)
    /\ At(last.trace, "return teacher.cleanup") # {}
    /\ last.trace[Len(last.trace)].stmt = "app.close"

-----------------------------------------------------------------------------
(* C11, C12: createMany and failing inserts, under SpecTeacherBatch        *)

\* the rows of the table of a type
Table(type) == IF type = "school" THEN schools ELSE teachers

\* the generated name of a row: name for a school, firstName for a teacher
NameOf(type, row) == IF type = "school" THEN row.name ELSE row.firstName

\* the elements of a sequence
Range(seq) == {seq[i] : i \in 1..Len(seq)}

\* C11: createMany(n) with n >= 1 and no overrides returns exactly n persisted
\* rows whose generated names and emails are pairwise distinct within the
\* batch, for School and for Teacher.
C11_CreateManyReturnsDistinctRows ==
    (last.op = "createMany" /\ ~last.overridden) =>
        /\ ~last.raised
        /\ Len(last.rows) = Len(last.data)
        /\ \A k \in 1..Len(last.rows) : Persisted(last.type, last.rows[k])
        /\ \A i, j \in 1..Len(last.rows) :
               i # j => /\ NameOf(last.type, last.rows[i]) # NameOf(last.type, last.rows[j])
                        /\ last.rows[i].email # last.rows[j].email

\* an insert of the last call was refused
InsertFailed == \E i \in 1..Len(last.trace) :
                    /\ last.trace[i].stmt \in {"INSERT schools", "INSERT teachers"}
                    /\ ~last.trace[i].ok

\* C12: when an insert inside create or createMany fails, the error reaches
\* the caller without a retry and no row of the call is persisted: the table
\* holds what it held before the call; a call that succeeds makes all its
\* rows visible together.
C12_FailedInsertPersistsNothing ==
    last.op \in {"create", "createMany"} =>
        /\ last.raised <=> InsertFailed
        /\ Cardinality(At(last.trace, "INSERT schools")
                        \cup At(last.trace, "INSERT teachers")) = 1
        /\ last.raised =>
               /\ Table(last.type) = last.before
               /\ last.rows = <<>>
               /\ last.trace[Len(last.trace)].stmt = "ROLLBACK"
        /\ ~last.raised => Table(last.type) = last.before \cup Range(last.rows)

\* C12 witness: a batch of two teachers sharing an overridden email, whose
\* first row the table would have accepted, was refused and rolled back, and
\* the table is as it was
C12_Witness ==
    /\ last.op = "createMany" /\ last.type = "teacher" /\ last.raised
    /\ Len(last.data) = 2
    /\ last.data[1].email = last.data[2].email
    /\ \A t \in last.before : t.email # last.data[1].email
    /\ teachers = last.before
    /\ last.trace[Len(last.trace)].stmt = "ROLLBACK"

-----------------------------------------------------------------------------
(* C13, C14: overrides of create and createMany, under SpecCreate          *)

\* C13: TeacherFactory.create and createMany called with a {school: S}
\* override hand the insert payloads that carry schoolId = S.id and no school
\* attribute, also when a raw schoolId is overridden in the same call, and
\* every row they persist has schoolId = S.id.
C13_SchoolOverrideSetsForeignKey ==
    (/\ last.op \in {"create", "createMany"} /\ last.type = "teacher"
     /\ "school" \in DOMAIN last.given) =>
        /\ \A k \in 1..Len(last.data) :
               /\ "school" \notin DOMAIN last.data[k]
               /\ last.data[k].schoolId = last.given["school"].id
        /\ \A k \in 1..Len(last.rows) :
               /\ last.rows[k] \in teachers
               /\ last.rows[k].schoolId = last.given["school"].id

\* C13 witness: a teacher was created with a school and a raw schoolId of
\* null, and the stored row points at the school
C13_Witness ==
    /\ last.op = "create" /\ last.type = "teacher" /\ ~last.raised
    /\ "school" \in DOMAIN last.given /\ "schoolId" \in DOMAIN last.given
    /\ last.given["schoolId"] # last.given["school"].id
    /\ last.row \in teachers
    /\ last.row.schoolId = last.given["school"].id

\* the defaults getDefaultData() generated for the create that has just
\* returned (the counter has been incremented by it, the clock has not moved)
DefaultsOfLast ==
    IF last.type = "school" THEN SchoolDefaultData(counter - 1, now, 1)
    ELSE TeacherDefaultData(SchoolOf(last.given).id, now)

\* the value create() is to persist for an attribute: the override when the
\* caller gave one, the default otherwise; schoolId follows a school override
ExpectedOfLast(attr) ==
    IF attr = "schoolId" /\ "school" \in DOMAIN last.given THEN last.given["school"].id
    ELSE IF attr \in DOMAIN last.given THEN last.given[attr]
    ELSE DefaultsOfLast[attr]

\* C14: create(overrides) persists, for every attribute, the caller's override
\* when one was supplied and the generated default otherwise; the returned row
\* carries the identifier the sequence generated, and GET /schools/:id for
\* that identifier answers exactly the stored attribute values.
C14_CreateMergesOverrides ==
    /\ (last.op = "create" /\ ~last.raised) =>
           /\ \A attr \in DOMAIN DefaultsOfLast : last.row[attr] = ExpectedOfLast(attr)
           /\ Persisted(last.type, last.row)
           /\ last.row.id = IF last.type = "school" THEN schools_id_seq ELSE teachers_id_seq
           /\ last.type = "school" =>
                  SchoolServiceFindById(PG, last.row.id) = [status |-> 200, body |-> last.row]
    /\ last.op = "GET /schools/:id" =>
           IF last.raised THEN \A s \in schools : s.id # last.given[1]
           ELSE last.row \in schools /\ last.row.id = last.given[1]

\* C14 witness: GET /schools/:id answered a row created with an overridden
\* name, a null address and a generated email
C14_Witness ==
    /\ last.op = "GET /schools/:id" /\ ~last.raised
    /\ last.row.name = <<"Specific Test School">>
    /\ last.row.address = NULL
    /\ last.row.email = GenerateEmail("school", now, 1)

-----------------------------------------------------------------------------
(* C15: the registry's cache, under SpecRegistry                           *)

\* a registry holds at most one instance per type, each of a known type and
\* bound to the registry's handle, and has constructed exactly those
OneInstancePerType(reg) ==
    /\ \A i, j \in reg.map : i.type = j.type => i = j
    /\ \A i \in reg.map : i.type \in FactoryTypes /\ i.db = reg.db
    /\ Cardinality(reg.map) = reg.built

\* a step that puts an instance of a type into the registry is a get of that
\* type on a registry that held none; a get of a cached type leaves the
\* registry as it is and returns the cached instance
CacheStep ==
    \A t \in FactoryTypes :
        /\ (Has(factories', t) /\ (Has(factories, t) => Cached(factories', t) # Cached(factories, t)))
               => (~Has(factories, t) /\ last'.op = "getFactory" /\ last'.type = t)
        /\ (GetFactory(t) /\ Has(factories, t))
               => (factories' = factories /\ last'.ret = Cached(factories, t))

\* C15: registry.get(type) constructs the factory on the first request for the
\* type and returns the identical cached instance on every later one; in
\* every reachable state a registry holds at most one instance per type,
\* bound to the registry's db handle, and none for a type never requested.
C15_OneCachedInstancePerType ==
    /\ [](/\ OneInstancePerType(factories)
          /\ (last.op = "getFactory" /\ ~last.raised) =>
                 (Has(factories, last.type) /\ last.ret = Cached(factories, last.type)))
    /\ [][CacheStep]_vars

\* C15 witness: with both types constructed, a get returned the instance
\* constructed first, not a new one
C15_Witness ==
    /\ last.op = "getFactory" /\ ~last.raised
    /\ Cardinality(factories.map) = 2 /\ factories.built = 2
    /\ last.ret.serial = 1

-----------------------------------------------------------------------------
(* C16 - C18: provider overrides, under SpecOverride                       *)

\* the entries recorded for a token, in registration order
EntriesFor(ovs, token) == SelectSeq(ovs, LAMBDA e : e.token = token)

\* the application of the last setupApp() has this recorded entry in effect
InEffect(e) ==
    /\ e.token \in DOMAIN built.overrides
    /\ built.overrides[e.token] = IF e.useValue # "undefined" THEN e.useValue
                                  ELSE IF e.useClass # "undefined" THEN e.useClass
                                  ELSE CallFactory(e.useFactory, <<>>)

\* C16: the overrides recorded on the builder are applied at setupApp() in
\* registration order, in either mode; of several overrides of any shape
\* registered for one token, the one registered last is in effect in the
\* built application.
C16_LastOverrideWins ==
    (last.op = "setupApp" /\ ~last.raised) =>
        \A token \in Tokens :
            LET es == EntriesFor(providerOverrides, token)
            IN  Len(es) > 1 => InEffect(es[Len(es)])

\* C17: setupApp() applies every recorded override: for each entry recorded
\* by overrideProvider, overrideProviderWithClass or
\* overrideProviderWithFactory the built module has the token substituted,
\* whatever value, class or factory was supplied.
C17_EveryOverrideApplied ==
    (last.op = "setupApp" /\ ~last.raised) =>
        \A k \in 1..Len(providerOverrides) :
            providerOverrides[k].token \in DOMAIN built.overrides

\* C18: with the full AppModule and overrideProvider(SchoolService, mock),
\* GET /schools answers the value of the mock's findAll, whatever rows the
\* schools table holds.
C18_MockedServiceAnswers ==
    (/\ last.op = "GET /schools"
     /\ built.imports = <<"AppModule">>
     /\ SchoolServiceOf(built) = "mock") =>
        /\ last.status = 200
        /\ last.body = {MockSchool}

\* C18 witness: GET /schools answered the mock's value while the schools
\* table held a row created through the factory
C18_Witness ==
    /\ last.op = "GET /schools"
    /\ built.imports = <<"AppModule">>
    /\ SchoolServiceOf(built) = "mock"
    /\ schools # {}
    /\ last.body = {MockSchool}
    /\ SchoolRepositoryFindAll(PG) # last.body

-----------------------------------------------------------------------------
(* C19, C20: the additive calls and the mode, under SpecCompose            *)

\* C19: while the full AppModule is the mode selected, withImports,
\* withControllers and withProviders leave the builder configuration (imports,
\* controllers, providers, overrides, mode) as it was and do not raise.
C19_AdditiveCallsIgnoredInFullMode ==
    (last.op = "add" /\ ~useCustomModule) =>
        /\ builderVars = last.before
        /\ ~last.raised

\* C19 witness: an additive call returned in full mode on a builder that holds
\* a controller and an override recorded earlier, and nothing moved
C19_Witness ==
    /\ last.op = "add" /\ ~useCustomModule
    /\ controllers # <<>> /\ providerOverrides # <<>>
    /\ imports = <<"AppModule">>
    /\ builderVars = last.before

\* C20: when the full AppModule is the mode selected at setupApp(), the module
\* assembled is the production root only: imports, controllers and providers
\* added earlier in custom mode are not applied.
C20_FullModeBuildsRootOnly ==
    (last.op = "setupApp" /\ ~last.raised /\ ~useCustomModule) =>
        /\ built.imports = <<"AppModule">>
        /\ built.controllers = <<>>
        /\ built.providers = <<>>

-----------------------------------------------------------------------------
(* C21: mode switches and the fragments added before them, under SpecCompose *)

\* the modules, controllers and providers a test added are all still recorded
\* after the step
FragmentsKept ==
    /\ \A m \in Modules : m \in Range(imports) => m \in Range(imports')
    /\ controllers' = controllers
    /\ providers' = providers

\* C21: switching composition mode discards nothing that was added in custom
\* mode: a withAppModule() or withCustomModule() step keeps every import,
\* controller and provider added before it, so a later setupApp() in custom
\* mode still applies them.
C21_ModeSwitchKeepsFragments ==
    [][(WithAppModule \/ WithCustomModule) => FragmentsKept]_vars

-----------------------------------------------------------------------------
(* C22: the unique-id counter, under SpecGenerator                         *)

\* a step in which SchoolFactory builds payloads from its defaults
DrawStep ==
    \/ SchoolCreate(1, NoOverrides)
    \/ SchoolCreateBegin(1, NoOverrides)
    \/ \E n \in 1..MaxBatch : SchoolCreateMany([i \in 1..n |-> 1], NoOverrides)

\* the counter never decreases; it moves only in a step that builds school
\* payloads, and the ids those payloads carry are the next ones in order
CounterStep ==
    LET n == counter' - counter
    IN  /\ n >= 0
        /\ n > 0 => last'.type = "school" /\ last'.op \in {"create", "create.begin", "createMany"}
        /\ DrawStep =>
               /\ n = Len(last'.data) /\ n >= 1
               /\ \A i \in 1..n :
                      last'.data[i].name = GenerateName("Test School", counter + i)

\* C22: getUniqueId() returns 1 on its first call and the previous value plus
\* one on every later call, so no value is returned twice, also to create
\* calls in flight together; no cleanup, setupApp or teardown resets or
\* decreases the counter.
C22_UniqueIdStrictlyIncreasing ==
    /\ counter = 0
    /\ [](\A i, j \in 1..Len(pending) : i # j => pending[i].name # pending[j].name)
    /\ [][CounterStep]_vars

\* C22 witness: two creates are in flight together with ids 1 and 2 drawn,
\* after a cleanup or teardown has run
C22_Witness ==
    /\ Len(pending) = 2 /\ counter = 2
    /\ pending[1].name = GenerateName("Test School", 1)
    /\ pending[2].name = GenerateName("Test School", 2)
    /\ last.op = "create.begin"
    /\ afterCleanup["school"] # "no"

-----------------------------------------------------------------------------
(* C23: randomInt with its bounds reversed, under SpecRandom               *)

\* C23: TestDataGenerator.randomInt(min, max) called with min > max fails
\* with an InvalidRange error instead of returning a number.
C23_ReversedRangeRaises ==
    (last.op = "randomInt" /\ last.given[1] > last.given[2]) => last.raised

-----------------------------------------------------------------------------
(* C24: a factory's own cleanup, under SpecFactoryCleanup                   *)

\* the statements of a factory's cleanup, by entity type
PrimaryOf(type) == IF type = "school" THEN "TRUNCATE schools CASCADE" ELSE "TRUNCATE teachers"
DeleteOf(type) == IF type = "school" THEN "DELETE schools" ELSE "DELETE teachers"
RestartOf(type) == IF type = "school" THEN "ALTER schools_id_seq" ELSE "ALTER teachers_id_seq"

\* statement name was issued in the call and went as ok says
Issued(call, name, ok) == \E i \in At(call.trace, name) : call.trace[i].ok = ok

\* C24: a factory's cleanup() runs its fallback (delete all rows, then reset
\* the sequence) only when the primary truncate failed, and never raises: a
\* failing delete or sequence reset is swallowed and the call returns
\* normally, possibly leaving rows or a non-reset sequence behind.
C24_FactoryFallbackOnlyAfterPrimaryFailed ==
    last.op = "factory.cleanup" =>
        /\ ~last.raised
        /\ At(last.trace, PrimaryOf(last.type)) = {2}
        /\ At(last.trace, DeleteOf(last.type)) # {} => Issued(last, PrimaryOf(last.type), FALSE)
        /\ At(last.trace, RestartOf(last.type)) # {} => Issued(last, DeleteOf(last.type), TRUE)
        /\ last.trace[Len(last.trace)].stmt \in {"return school.cleanup", "return teacher.cleanup"}

\* C24 witness: the truncate failed, the fallback deleted the rows, its
\* sequence reset failed and was swallowed: the sequence is left where it was
C24_Witness ==
    /\ last.op = "factory.cleanup" /\ last.type = "school" /\ ~last.raised
    /\ Issued(last, "TRUNCATE schools CASCADE", FALSE)
    /\ Issued(last, "DELETE schools", TRUE)
    /\ Issued(last, "ALTER schools_id_seq", FALSE)
    /\ schools = {} /\ schools_id_seq > 0

-----------------------------------------------------------------------------
(* C29: what each factory's cleanup reaches, under SpecFactoryCleanup      *)

\* C29: SchoolFactory.cleanup() through its primary path empties the teachers
\* storage as well as the schools storage (cascade), whereas
\* TeacherFactory.cleanup() leaves the schools storage and the school
\* identifier sequence unchanged.
C29_SchoolCleanupCascades ==
    last.op = "factory.cleanup" =>
        /\ (last.type = "school" /\ Issued(last, "TRUNCATE schools CASCADE", TRUE))
               => (schools = {} /\ teachers = {})
        /\ last.type = "teacher"
               => (schools = last.before.schools
                   /\ schools_id_seq = last.before.schools_id_seq)

\* C29 witness: the school factory's truncate ran on stored schools and a
\* stored teacher of one of them
C29_Witness ==
    /\ last.op = "factory.cleanup" /\ last.type = "school"
    /\ Issued(last, "TRUNCATE schools CASCADE", TRUE)
    /\ \E t \in last.before.teachers : \E x \in last.before.schools : t.schoolId = x.id
    /\ teachers = {}

-----------------------------------------------------------------------------
(* C25 - C26: requests on one row, under SpecHttp                          *)

\* the rows of the request's entity type before the request, and the one the
\* request names
TableBefore == IF last.type = "school" THEN last.before.schools ELSE last.before.teachers
Named == {x \in TableBefore : x.id = last.given[1]}

\* a teacher stored before the request references the named row
Referenced ==
    last.type = "school" /\ \E t \in last.before.teachers : t.schoolId = last.given[1]

OnOneRow == {"GET /schools/:id", "PUT /schools/:id", "DELETE /schools/:id",
             "GET /teachers/:id", "PUT /teachers/:id", "DELETE /teachers/:id"}

\* C25: for both entity types, DELETE /<entities>/:id on an identifier that
\* exists (and that no stored teacher references) removes exactly that row
\* and answers 204, not a not-found error; the row is absent afterwards.
C25_DeleteExistingAnswers204 ==
    (last.op \in {"DELETE /schools/:id", "DELETE /teachers/:id"}
        /\ Named # {} /\ ~Referenced) =>
        /\ last.status = 204
        /\ Table(last.type) = TableBefore \ Named

\* C26: for both entity types, GET, PUT and DELETE on an identifier with no
\* stored row end in the not-found (404) outcome and leave the stored schools
\* and teachers unchanged.
C26_MissingRowAnswers404 ==
    (last.op \in OnOneRow /\ Named = {}) =>
        /\ last.status = 404
        /\ PG = last.before

\* C26 witness: a DELETE named a school that is not stored while another
\* school and a teacher are, and was answered 404
C26_Witness ==
    /\ last.op = "DELETE /schools/:id" /\ Named = {}
    /\ last.status = 404
    /\ schools # {} /\ teachers # {}

-----------------------------------------------------------------------------
(* C27: referential integrity, under SpecIntegrity                         *)

\* every stored teacher has no school or a stored one
ReferentialIntegrity ==
    \A t \in teachers : t.schoolId = NullId \/ \E x \in schools : x.id = t.schoolId

\* the last call inserted one teacher whose schoolId names no stored school
InsertOfUnknownSchool ==
    /\ last.type = "teacher" /\ last.op \in {"create", "POST /teachers"}
    /\ Len(last.data) = 1
    /\ last.data[1].schoolId # NullId
    /\ \A x \in schools : x.id # last.data[1].schoolId

\* the last call was a DELETE of a stored school that a stored teacher referenced
DeleteOfReferencedSchool ==
    last.op = "DELETE /schools/:id" /\ Named # {} /\ Referenced

\* C27: in every reachable state each stored teacher's schoolId is null or the
\* identifier of a stored school, across factory creates, HTTP creates,
\* updates and deletes and every cleanup path; deleting a referenced school
\* or inserting a teacher with an unknown schoolId fails and leaves the
\* stored rows unchanged.
C27_ReferentialIntegrity ==
    /\ ReferentialIntegrity
    /\ DeleteOfReferencedSchool =>
           (last.raised /\ schools = last.before.schools /\ teachers = last.before.teachers)
    /\ InsertOfUnknownSchool =>
           (last.raised /\ teachers = IF last.op = "create" THEN last.before
                                      ELSE last.before.teachers)

\* C27 witness: the DELETE of a school that a teacher references was refused
\* and both rows are still stored
C27_Witness ==
    /\ DeleteOfReferencedSchool /\ last.status = 500
    /\ \E t \in teachers : \E x \in schools : t.schoolId = x.id /\ x.id = last.given[1]

-----------------------------------------------------------------------------
(* C28: builds repeated on one builder, under SpecApps                     *)

\* a successful setupApp() starts one more application, which the builder then
\* references; an application the builder does not reference is left as it
\* is by every step; a teardown() shuts down the referenced application
AppsStep ==
    /\ (last'.op = "setupApp" /\ ~last'.raised) =>
           /\ Len(instances') = Len(instances) + 1
           /\ app' = Len(instances')
           /\ instances'[app'].closeCalls = 0
    /\ \A n \in 1..Len(instances) : n # app => instances'[n] = instances[n]
    /\ (last'.op = "teardown" /\ app # 0) =>
           instances'[app].closeCalls = instances[app].closeCalls + 1

\* C28: when setupApp() is called twice on the same builder, each call starts
\* a separate application instance and the builder references the latest
\* one only: teardown() shuts down the instance of the most recent
\* setupApp(), and the instance started by the earlier call is never shut
\* down by any later cleanup() or teardown().
C28_TeardownClosesLatestOnly ==
    /\ [](app = Len(instances))
    /\ [][AppsStep]_vars

\* C28 witness: two applications were started, a teardown shut the second
\* down and the first was never shut down
C28_Witness ==
    /\ Len(instances) = 2 /\ app = 2
    /\ last.op = "teardown"
    /\ instances[2].closeCalls = 1
    /\ instances[1].closeCalls = 0

-----------------------------------------------------------------------------
(* C30: overrides by factory function, under SpecFactoryOverride           *)

\* the entries recorded by overrideProviderWithFactory
FactoryEntries == SelectSeq(providerOverrides, LAMBDA e : e.useFactory # "undefined")

\* C30: an override recorded with overrideProviderWithFactory(token, fn, deps)
\* is materialized by calling fn exactly once per setupApp(), with no
\* arguments whatever deps lists; the value it returned is installed as a
\* fixed value for token (unless a later entry for the token replaces it);
\* recording the override calls nothing.
C30_FactoryCalledOncePerBuild ==
    /\ last.op = "setupApp" =>
           /\ Len(last.calls) = Len(FactoryEntries)
           /\ \A k \in 1..Len(FactoryEntries) :
                  /\ last.calls[k].fn = FactoryEntries[k].useFactory
                  /\ last.calls[k].token = FactoryEntries[k].token
                  /\ last.calls[k].args = <<>>
    /\ (last.op = "setupApp" /\ ~last.raised) =>
           \A token \in Tokens :
               LET es == EntriesFor(providerOverrides, token)
               IN  (Len(es) > 0 /\ es[Len(es)].useFactory # "undefined") =>
                       /\ token \in DOMAIN built.overrides
                       /\ built.overrides[token] = CallFactory(es[Len(es)].useFactory, <<>>)
    /\ last.op # "setupApp" => last.calls = <<>>

\* C30 witness: the second build on a builder called a factory function that
\* was recorded with a dependency list, with no arguments, and installed
\* what it returned
C30_Witness ==
    /\ last.op = "setupApp" /\ ~last.raised /\ Len(instances) = 2
    /\ \E k \in 1..Len(last.calls) :
           /\ FactoryEntries[k].inject # <<>>
           /\ last.calls[k].args = <<>>
           /\ built.overrides[last.calls[k].token] = "made"

====
